---------------------------- MODULE Spec2Model ----------------------------
(***************************************************************************)
(* State-machine model of dylemma/grid-map-generator: the dense Grid       *)
(* (grid.rs), the span-based scan-line flood fill (fill.rs) and the island *)
(* generator that labels connected components with it (procgen.rs).        *)
(***************************************************************************)
EXTENDS Integers, Sequences, FiniteSets, TLC

(***************************************************************************)
(* Bounds of the model.                                                    *)
(***************************************************************************)
\* Every grid shape width x height with width * height <= MaxTiles is explored.
MaxTiles == 9

\* The number of seeds the seed stack's allocation can hold: a push past it
\* fails and aborts the process, as Vec::push does when memory runs out.
MaxStack == 12

\* Border::at is tried on the tiles (0 .. MaxCoord) x (0 .. MaxCoord).
MaxCoord == 2

\* Obstacles::add is called at most MaxAdds times and remove_all at most
\* MaxClears times in a run.
MaxAdds == 3
MaxClears == 1

\* Calls of every kind are interleaved on grids of up to MaxGridTiles tiles.
MaxGridTiles == 4

\* Where the overflow of the index arithmetic is studied, u32 is scaled to
\* WordBits bits and usize to twice as many.
WordBits == 3

\* Paths are searched on every grid of up to MaxPathTiles tiles.
MaxPathTiles == 6

(***************************************************************************)
(* Option<T>: None is the empty tuple, Some(v) the one-element tuple.      *)
(***************************************************************************)
None == << >>
Some(v) == << v >>
IsSome(o) == o # None
Unwrap(o) == o[1]

(***************************************************************************)
(* grid.rs: Grid<T> { width, height, tiles }                               *)
(***************************************************************************)
\* Grid::new: a row-major array of width*height default tiles.
\* A Grid::new whose Vec has one element too many.
GridNewPadded(w, h, default) ==
    [width |-> w, height |-> h, tiles |-> [i \in 0 .. (w * h) |-> default]]

GridNew(w, h, default) ==
    [width |-> w, height |-> h, tiles |-> [i \in 0 .. (w * h - 1) |-> default]]

\* The array index of tile_at / tile_at_mut: pos.1 * width + pos.0.
TileIndex(g, x, y) == y * g.width + x

\* An accessor whose column check is off by one (> for >=), as a faulty
\* tile_at would behave: column `width` reads into the next row.
TileAtPastEdge(g, x, y) ==
    IF x > g.width THEN None
    ELSE IF y >= g.height THEN None
    ELSE IF TileIndex(g, x, y) \in DOMAIN g.tiles
         THEN Some(g.tiles[TileIndex(g, x, y)])
         ELSE None

\* Grid::tile_at
TileAt(g, x, y) ==
    IF x >= g.width THEN None
    ELSE IF y >= g.height THEN None
    ELSE Some(g.tiles[TileIndex(g, x, y)])

\* impl Tiles<u32> for Grid: get_tile
GridGetTile(g, x, y) == TileAt(g, x, y)

\* A set_tile that clamps the address onto the nearest tile of the grid.
GridSetTileClamped(g, x, y, tile) ==
    LET cx == IF x >= g.width THEN g.width - 1 ELSE x
        cy == IF y >= g.height THEN g.height - 1 ELSE y
    IN  [g EXCEPT !.tiles[TileIndex(g, cx, cy)] = tile]

\* impl Tiles<u32> for Grid: set_tile (tile_at_mut, then the assignment)
GridSetTile(g, x, y, tile) ==
    IF x >= g.width THEN g
    ELSE IF y >= g.height THEN g
    ELSE [g EXCEPT !.tiles[TileIndex(g, x, y)] = tile]

(***************************************************************************)
(* grid.rs 50-60, 99-153: neighbors_of, Neighborhood and NeighborsItr      *)
(***************************************************************************)
FOUR_WAY_NEIGHBOR_OFFSETS == << << 0, 1 >>, << 1, 0 >>, << 0, -1 >>, << -1, 0 >> >>
EIGHT_WAY_NEIGHBOR_OFFSETS ==
    << << 0, 1 >>, << 1, 1 >>, << 1, 0 >>, << 1, -1 >>,
       << 0, -1 >>, << -1, -1 >>, << -1, 0 >>, << -1, 1 >> >>

\* i32::unsigned_abs.
UnsignedAbs(d) == IF d < 0 THEN 0 - d ELSE d

\* u32::checked_sub and u32::checked_add (no centre of a grid is near u32::MAX).
CheckedSub(a, b) == IF a < b THEN None ELSE Some(a - b)
CheckedAdd(a, b) == Some(a + b)

\* Neighborhood::check_x / check_y against max_exclusive.
CheckBelow(v, max_exclusive) == IF v < max_exclusive THEN Some(v) ELSE None

\* One coordinate of Neighborhood::rel: the checked step, then the check.
RelCoordinate(c, d, max_exclusive) ==
    LET stepped == IF d < 0 THEN CheckedSub(c, UnsignedAbs(d)) ELSE CheckedAdd(c, UnsignedAbs(d))
    IN  IF IsSome(stepped) THEN CheckBelow(Unwrap(stepped), max_exclusive) ELSE None

\* A rel that steps below zero by wrapping round to the far edge.
RelWrapping(hood, dx, dy) ==
    Some(<< (hood.center[1] + dx + hood.max_exclusive[1]) % hood.max_exclusive[1],
            (hood.center[2] + dy + hood.max_exclusive[2]) % hood.max_exclusive[2] >>)

\* Neighborhood::rel (grid.rs 113-127).
Rel(hood, dx, dy) ==
    LET x == RelCoordinate(hood.center[1], dx, hood.max_exclusive[1])
        y == RelCoordinate(hood.center[2], dy, hood.max_exclusive[2])
    IN  IF IsSome(x) /\ IsSome(y) THEN Some(<< Unwrap(x), Unwrap(y) >>) ELSE None

\* NeighborsItr::next to exhaustion (grid.rs 143-149): what the iterator
\* yields from the k-th offset on, in order.
RECURSIVE NeighborsFrom(_, _, _)
NeighborsFrom(hood, offsets, k) ==
    IF k > Len(offsets) THEN << >>
    ELSE LET r == Rel(hood, offsets[k][1], offsets[k][2])
         IN  (IF IsSome(r) THEN << Unwrap(r) >> ELSE << >>)
             \o NeighborsFrom(hood, offsets, k + 1)

\* Grid::neighbors_of (grid.rs 50-60), collected.
NeighborsOf(g, address, nt) ==
    NeighborsFrom([max_exclusive |-> << g.width, g.height >>, center |-> address],
                  IF nt = "FourWay" THEN FOUR_WAY_NEIGHBOR_OFFSETS
                  ELSE EIGHT_WAY_NEIGHBOR_OFFSETS, 1)

(***************************************************************************)
(* procgen.rs: GridProxy { grid, group_size }, a Tiles<u32> store that     *)
(* counts its writes.  A store is a record [kind, grid, group_size]; for   *)
(* kind "Grid" the counter is not part of the program and stays 0.         *)
(***************************************************************************)
GridStore(g) == [kind |-> "Grid", grid |-> g, group_size |-> 0]
ProxyStore(g) == [kind |-> "GridProxy", grid |-> g, group_size |-> 0]

\* GridProxy::get_tile
ProxyGetTile(s, x, y) == TileAt(s.grid, x, y)

\* A proxy that writes through without counting, as set_tile without
\* procgen.rs line 76 would behave.
ProxySetTileUncounted(s, x, y, tile) ==
    IF IsSome(TileAt(s.grid, x, y))
    THEN [s EXCEPT !.grid = GridSetTile(s.grid, x, y, tile)]
    ELSE s

\* GridProxy::set_tile
ProxySetTile(s, x, y, tile) ==
    IF IsSome(TileAt(s.grid, x, y))
    THEN [s EXCEPT !.grid = GridSetTile(s.grid, x, y, tile),
                   !.group_size = s.group_size + 1]
    ELSE s

\* Tiles::get_tile, dispatched on the store
GetTile(s, x, y) ==
    IF s.kind = "GridProxy" THEN ProxyGetTile(s, x, y) ELSE GridGetTile(s.grid, x, y)

\* Tiles::set_tile, dispatched on the store
SetTile(s, x, y, tile) ==
    IF s.kind = "GridProxy" THEN ProxySetTile(s, x, y, tile)
    ELSE [s EXCEPT !.grid = GridSetTile(s.grid, x, y, tile)]

(***************************************************************************)
(* fill.rs                                                                 *)
(***************************************************************************)
\* Step::forward_checked on u32.  It is None only past u32::MAX, which no
\* coordinate of a grid that fits the model comes near.
ForwardChecked(i, n) == Some(i + n)

\* Step::backward_checked on u32: None below zero.
BackwardChecked(i, n) == IF i < n THEN None ELSE Some(i - n)

\* Dir::step
DirStep(dir, i) ==
    IF dir = "Up" THEN ForwardChecked(i, 1) ELSE BackwardChecked(i, 1)

\* impl Not for Dir
DirNot(dir) == IF dir = "Up" THEN "Down" ELSE "Up"

\* The tiles the callers colour as open ground.
IsOpenTile(t) == t \in {"Floor", "Colored"}

\* The color_equivalence closure P: "eq" is |a, b| *a == *b (main.rs,
\* procgen.rs); "open" relates two tiles that are both open or both not.
ColorEquivalence(pred, a, b) ==
    IF pred = "eq" THEN a = b ELSE IsOpenTile(a) = IsOpenTile(b)

\* A test that ignores the predicate, as a faulty inside would behave.
InsideAnyTile(s, y, pred, start_color, x) == IsSome(GetTile(s, x, y))

\* GridRowFloodTest::inside, with tile_test = |c| color_equivalence(c, &start_color)
Inside(s, y, pred, start_color, x) ==
    LET t == GetTile(s, x, y)
    IN  IsSome(t) /\ ColorEquivalence(pred, Unwrap(t), start_color)

\* DescendFrom(Some(x)).take_while(inside).last().unwrap_or(x)
RECURSIVE DescendLast(_, _, _, _, _)
DescendLast(s, y, pred, start_color, x) ==
    LET prev == BackwardChecked(x, 1)
    IN  IF IsSome(prev) /\ Inside(s, y, pred, start_color, Unwrap(prev))
        THEN DescendLast(s, y, pred, start_color, Unwrap(prev))
        ELSE x

\* AscendFrom(Some(x)).take_while(inside).last().unwrap_or(x)
RECURSIVE AscendLast(_, _, _, _, _)
AscendLast(s, y, pred, start_color, x) ==
    LET next == ForwardChecked(x, 1)
    IN  IF IsSome(next) /\ Inside(s, y, pred, start_color, Unwrap(next))
        THEN AscendLast(s, y, pred, start_color, Unwrap(next))
        ELSE x

\* expand_range: Option<Span>, a Span being [min, max]
ExpandRange(s, y, pred, start_color, x) ==
    IF Inside(s, y, pred, start_color, x)
    THEN Some([min |-> DescendLast(s, y, pred, start_color, x),
               max |-> AscendLast(s, y, pred, start_color, x)])
    ELSE None

\* (current_x ..= parent_max_x).find(|x| test.inside(*x))
RECURSIVE FindInside(_, _, _, _, _, _)
FindInside(s, y, pred, start_color, current_x, parent_max_x) ==
    IF current_x > parent_max_x THEN None
    ELSE IF Inside(s, y, pred, start_color, current_x) THEN Some(current_x)
    ELSE FindInside(s, y, pred, start_color, current_x + 1, parent_max_x)

\* next_child_range_right
NextChildRangeRight(s, y, pred, start_color, parent_max_x, current_x) ==
    LET x_min == FindInside(s, y, pred, start_color, current_x, parent_max_x)
    IN  IF IsSome(x_min)
        THEN ExpandRange(s, y, pred, start_color, Unwrap(x_min))
        ELSE None

\* for x in span.into_iter() { tiles.set_tile(x, y, color.clone()) }
RECURSIVE FillSpan(_, _, _, _, _)
FillSpan(s, x, max, y, color) ==
    IF x > max THEN s
    ELSE FillSpan(SetTile(s, x, y, color), x + 1, max, y, color)

Seed(span, y, dir) == [span |-> span, y |-> y, dir |-> dir]

\* A fill that never reverses direction, as a fill without lines 90-105 would behave.
NoOverhangSeeds(parent, child, y, dir) == << >>

\* Back-seeds that cover the whole child span instead of only its overhang.
OverhangSeedsWholeChild(parent, child, y, dir) ==
    LET prev_y == DirStep(DirNot(dir), y)
        ps2 == BackwardChecked(parent.min, 2)
        pe2 == ForwardChecked(parent.max, 2)
    IN  IF IsSome(prev_y)
        THEN (IF IsSome(ps2) /\ child.min <= Unwrap(ps2)
              THEN << Seed(child, Unwrap(prev_y), DirNot(dir)) >> ELSE << >>)
          \o (IF IsSome(pe2) /\ child.max >= Unwrap(pe2)
              THEN << Seed(child, Unwrap(prev_y), DirNot(dir)) >> ELSE << >>)
        ELSE << >>

\* fill.rs 92-105: the opposite-direction seeds of a child span that overhangs
\* its parent, in push order.
OverhangSeeds(parent, child, y, dir) ==
    LET prev_y == DirStep(DirNot(dir), y)
        ps2 == BackwardChecked(parent.min, 2)
        pe2 == ForwardChecked(parent.max, 2)
        left == IF IsSome(ps2) /\ child.min <= Unwrap(ps2)
                THEN << Seed([min |-> child.min, max |-> Unwrap(ps2)],
                             Unwrap(prev_y), DirNot(dir)) >>
                ELSE << >>
        right == IF IsSome(pe2) /\ child.max >= Unwrap(pe2)
                 THEN << Seed([min |-> Unwrap(pe2), max |-> child.max],
                              Unwrap(prev_y), DirNot(dir)) >>
                 ELSE << >>
    IN  IF IsSome(prev_y) THEN left \o right ELSE << >>

\* A scan that never advances past the rows next to the start row.
NoForwardSeeds(child, y, dir) == << >>

\* A forward seed that skips a row.
ForwardSeedsTwoRows(child, y, dir) ==
    LET next_y == IF dir = "Up" THEN ForwardChecked(y, 2) ELSE BackwardChecked(y, 2)
    IN  IF IsSome(next_y) THEN << Seed(child, Unwrap(next_y), dir) >> ELSE << >>

\* fill.rs 86-88: the same-direction seed of a child span.
ForwardSeeds(child, y, dir) ==
    LET next_y == DirStep(dir, y)
    IN  IF IsSome(next_y) THEN << Seed(child, Unwrap(next_y), dir) >> ELSE << >>

\* fill.rs 73-106: the ChildScan loop of one seed.  f is the running call
\* [store, seed_stack]; current_x is ChildScan.current_x (an Option).
RECURSIVE ChildScanLoop(_, _, _, _, _, _, _, _)
ChildScanLoop(f, parent, y, dir, pred, start_color, color, current_x) ==
    IF ~IsSome(current_x) THEN f
    ELSE
      LET child_range == NextChildRangeRight(f.store, y, pred, start_color,
                                             parent.max, Unwrap(current_x))
      IN  IF ~IsSome(child_range) THEN f
          ELSE
            LET child == Unwrap(child_range)
                filled == FillSpan(f.store, child.min, child.max, y, color)
                pushed == f.seed_stack \o ForwardSeeds(child, y, dir)
                                       \o OverhangSeeds(parent, child, y, dir)
            IN  ChildScanLoop([store |-> filled, seed_stack |-> pushed],
                              parent, y, dir, pred, start_color, color,
                              ForwardChecked(child.max, 2))

\* fill.rs 65-107: one iteration of the while-let loop: pop a seed, scan its row.
FloodFillPop(f, pred, start_color, color) ==
    LET n == Len(f.seed_stack)
        seed == f.seed_stack[n]
        rest == [store |-> f.store, seed_stack |-> SubSeq(f.seed_stack, 1, n - 1)]
    IN  ChildScanLoop(rest, seed.span, seed.y, seed.dir, pred, start_color, color,
                      Some(seed.span.min))

\* fill.rs 38-59: the initial row and the two initial seeds.  start_color is Some.
FloodFillBegin(s, start, pred, start_color, color) ==
    LET start_range == ExpandRange(s, start[2], pred, start_color, start[1])
    IN  IF IsSome(start_range)
        THEN LET r == Unwrap(start_range)
                 up_y == DirStep("Up", start[2])
                 down_y == DirStep("Down", start[2])
             IN  [store |-> FillSpan(s, r.min, r.max, start[2], color),
                  seed_stack |->
                      (IF IsSome(up_y) THEN << Seed(r, Unwrap(up_y), "Up") >> ELSE << >>)
                   \o (IF IsSome(down_y) THEN << Seed(r, Unwrap(down_y), "Down") >> ELSE << >>)]
        ELSE [store |-> s, seed_stack |-> << >>]

\* The while-let loop run until the stack is empty.
RECURSIVE FloodFillDrain(_, _, _, _)
FloodFillDrain(f, pred, start_color, color) ==
    IF f.seed_stack = << >> THEN f
    ELSE FloodFillDrain(FloodFillPop(f, pred, start_color, color), pred, start_color, color)

\* flood_fill as one call; used where the caller cannot observe its steps.
FloodFill(s, start, pred, color) ==
    LET t == GetTile(s, start[1], start[2])
    IN  IF ~IsSome(t) THEN s
        ELSE FloodFillDrain(FloodFillBegin(s, start, pred, Unwrap(t), color),
                            pred, Unwrap(t), color).store

(***************************************************************************)
(* procgen.rs                                                              *)
(***************************************************************************)
\* TileGenState
Unreachable == << "Unreachable" >>
Unassigned == << "Unassigned" >>
ReachableGroup(id) == << "ReachableGroup", id >>

\* impl From<Reachability> for TileGenState
TileGenStateFrom(r) == IF r = "Open" THEN Unassigned ELSE Unreachable

\* impl From<Reachability> for TileState (zone.rs), the f of generate_island_into
TileStateFrom(r) == IF r = "Open" THEN "Floor" ELSE "Water"

\* GroupId is a u8.
GroupIdBits == 8

\* GroupId::default()
GroupIdDefault == 0

\* GroupId::next: self.0 + 1 in u8.  With overflow checks (a debug build) an
\* overflowing addition panics, without them (a release build) it wraps.
GroupIdNext(id, overflow_checks) ==
    IF id + 1 >= 2^GroupIdBits
    THEN (IF overflow_checks THEN None ELSE Some((id + 1) % (2^GroupIdBits)))
    ELSE Some(id + 1)

\* Grid::addresses: every address of a width x height grid in row-major order.
Addresses(w, h) == [k \in 1 .. (w * h) |-> << (k - 1) % w, (k - 1) \div w >>]

\* A selection that keeps the first group found, whatever follows.
KeepFirstGroup(biggest_group, id, size) ==
    IF biggest_group[2] = 0 THEN << id, size >> ELSE biggest_group

\* A selection that lets a later group of equal size win.
BiggestGroupOrEqual(biggest_group, id, size) ==
    IF size >= biggest_group[2] THEN << id, size >> ELSE biggest_group

\* procgen.rs 39-41: if current_group_size > biggest_group.1 { ... }
BiggestGroup(biggest_group, id, size) ==
    IF size > biggest_group[2] THEN << id, size >> ELSE biggest_group

\* A match that takes an unreachable tile for a member of group 0.
ReachabilityOfDefaultGroup(tile, primary_group_id) ==
    IF tile = Unreachable
    THEN (IF primary_group_id = GroupIdDefault THEN "Open" ELSE "Closed")
    ELSE IF tile = Unassigned THEN "Closed"
    ELSE IF tile[2] = primary_group_id THEN "Open" ELSE "Closed"

\* procgen.rs 51-57: the match on grid[addr]
ReachabilityOf(tile, primary_group_id) ==
    IF tile = Unreachable THEN "Closed"
    ELSE IF tile = Unassigned THEN "Closed"
    ELSE IF tile[2] = primary_group_id THEN "Open" ELSE "Closed"

(***************************************************************************)
(* border.rs: Border, Border::at and collect_borders                       *)
(***************************************************************************)
Cardinals == {"North", "East", "South", "West"}

Border(pos, is_vertical) == [pos |-> pos, is_vertical |-> is_vertical]

\* A Border::at whose North arm forgets the + 1.
BorderAtNorthInPlace(pos, cardinal) ==
    CASE cardinal = "North" -> Border(pos, FALSE)
      [] cardinal = "East" -> Border(<< pos[1] + 1, pos[2] >>, TRUE)
      [] cardinal = "South" -> Border(pos, FALSE)
      [] cardinal = "West" -> Border(pos, TRUE)

\* Border::at (border.rs 16-35).
BorderAt(pos, cardinal) ==
    CASE cardinal = "North" -> Border(<< pos[1], pos[2] + 1 >>, FALSE)
      [] cardinal = "East" -> Border(<< pos[1] + 1, pos[2] >>, TRUE)
      [] cardinal = "South" -> Border(pos, FALSE)
      [] cardinal = "West" -> Border(pos, TRUE)

\* grid.tile_at(&a).is_some_and(test_inside); test is the set of tile values
\* test_inside answers true for.
IsSomeAnd(o, test) == IsSome(o) /\ Unwrap(o) \in test

\* An open-tile rule without the x == 0 case.
OpenTileBordersNoWestWall(g, test, addr) ==
    LET to_north == << addr[1], addr[2] + 1 >>
        to_east == << addr[1] + 1, addr[2] >>
    IN  (IF addr[2] = 0 THEN << BorderAt(addr, "South") >> ELSE << >>)
        \o (IF ~IsSomeAnd(TileAt(g, to_north[1], to_north[2]), test)
            THEN << BorderAt(addr, "North") >> ELSE << >>)
        \o (IF ~IsSomeAnd(TileAt(g, to_east[1], to_east[2]), test)
            THEN << BorderAt(addr, "East") >> ELSE << >>)

\* An open-tile rule that takes a missing neighbour for "no border".
OpenTileBordersInGridOnly(g, test, addr) ==
    LET to_north == << addr[1], addr[2] + 1 >>
        to_east == << addr[1] + 1, addr[2] >>
        north == TileAt(g, to_north[1], to_north[2])
        east == TileAt(g, to_east[1], to_east[2])
    IN  (IF addr[1] = 0 THEN << BorderAt(addr, "West") >> ELSE << >>)
        \o (IF addr[2] = 0 THEN << BorderAt(addr, "South") >> ELSE << >>)
        \o (IF IsSome(north) /\ Unwrap(north) \notin test
            THEN << BorderAt(addr, "North") >> ELSE << >>)
        \o (IF IsSome(east) /\ Unwrap(east) \notin test
            THEN << BorderAt(addr, "East") >> ELSE << >>)

\* border.rs 72-91: what an inside tile at addr hands to the receiver, in order.
OpenTileBorders(g, test, addr) ==
    LET to_north == << addr[1], addr[2] + 1 >>
        to_east == << addr[1] + 1, addr[2] >>
    IN  (IF addr[1] = 0 THEN << BorderAt(addr, "West") >> ELSE << >>)
        \o (IF addr[2] = 0 THEN << BorderAt(addr, "South") >> ELSE << >>)
        \o (IF ~IsSomeAnd(TileAt(g, to_north[1], to_north[2]), test)
            THEN << BorderAt(addr, "North") >> ELSE << >>)
        \o (IF ~IsSomeAnd(TileAt(g, to_east[1], to_east[2]), test)
            THEN << BorderAt(addr, "East") >> ELSE << >>)

\* A closed-tile rule that reports nothing.
NoClosedTileBorders(g, test, addr) == << >>

\* border.rs 93-103: what a tile that is not inside hands to the receiver.
ClosedTileBorders(g, test, addr) ==
    LET to_north == << addr[1], addr[2] + 1 >>
        to_east == << addr[1] + 1, addr[2] >>
    IN  (IF IsSomeAnd(TileAt(g, to_north[1], to_north[2]), test)
         THEN << BorderAt(to_north, "South") >> ELSE << >>)
        \o (IF IsSomeAnd(TileAt(g, to_east[1], to_east[2]), test)
            THEN << BorderAt(to_east, "West") >> ELSE << >>)

\* border.rs 70-105: the body of the loop for one address.
CollectBordersAt(g, test, addr) ==
    LET tile == TileAt(g, addr[1], addr[2])
    IN  IF IsSome(tile)
        THEN IF Unwrap(tile) \in test
             THEN OpenTileBorders(g, test, addr)
             ELSE ClosedTileBorders(g, test, addr)
        ELSE << >>

(***************************************************************************)
(* raycast_world.rs: Obstacle, ObstacleRef, Obstacles over parry2d's Qbvh  *)
(* Lengths are in tenths of a tile (tile_size 1.0 is 10).                  *)
(***************************************************************************)
TileSize == 10

\* GridDimensions::world_pos_of with bottom_left ZERO (zone.rs 106-111).
WorldPosOf(tile) == << tile[1] * TileSize, tile[2] * TileSize >>

Aabb(mins, maxs) == [mins |-> mins, maxs |-> maxs]

\* Obstacle::border_wall and Obstacle::aabb (raycast_world.rs 34-52): the
\* cuboid of half extents (0.1, 0.6) or (0.6, 0.1) tiles about the middle of
\* the border; its isometry is a translation, so the cuboid is its own Aabb.
BorderWallAabb(border) ==
    LET p == WorldPosOf(border.pos)
        small == TileSize \div 10
        large == (6 * TileSize) \div 10
        half == TileSize \div 2
    IN  IF border.is_vertical
        THEN Aabb(<< p[1] - small, p[2] + half - large >>,
                  << p[1] + small, p[2] + half + large >>)
        ELSE Aabb(<< p[1] + half - large, p[2] - small >>,
                  << p[1] + half + large, p[2] + small >>)

\* Qbvh<ObstacleRef> told by what its callers can observe: the handles
\* prepared by pre_update_or_insert and awaiting refit (pending), the leaves
\* refit has given a bounding box (leaves), and whether rebalance has run
\* since the last change.
QbvhNew == [pending |-> {}, leaves |-> << >>, balanced |-> TRUE]

Restrict(f, S) == [h \in S |-> f[h]]

\* Qbvh::remove: the leaf of the handle goes at once, pending or not.
QbvhRemove(q, h) ==
    [q EXCEPT !.pending = @ \ {h},
              !.leaves = Restrict(@, DOMAIN @ \ {h}),
              !.balanced = IF h \in q.pending \cup DOMAIN q.leaves THEN FALSE ELSE @]

\* Qbvh::pre_update_or_insert: the handle awaits the next refit.
QbvhPreUpdateOrInsert(q, h) == [q EXCEPT !.pending = @ \cup {h}, !.balanced = FALSE]

\* Qbvh::rebalance.
QbvhRebalance(q) == [q EXCEPT !.balanced = TRUE]

RegisteredIn(q) == q.pending \cup DOMAIN q.leaves

\* Obstacles::default / Obstacles::new (raycast_world.rs 62-70, 88-90).
ObstaclesNew == [obstacles |-> << >>, qbvh |-> QbvhNew]

\* Index for Obstacles (raycast_world.rs 75-77): None is the panic of an
\* index out of bounds; the handle h is the usize it wraps.
ObstaclesIndex(o, h) ==
    IF h < Len(o.obstacles) THEN Some(o.obstacles[h + 1]) ELSE None

\* IndexMut for Obstacles (raycast_world.rs 81-84): the Obstacles after the
\* call and what it resolved to.
ObstaclesIndexMut(o, h) ==
    [o |-> [o EXCEPT !.qbvh = QbvhPreUpdateOrInsert(@, h)],
     result |-> ObstaclesIndex(o, h)]

RECURSIVE RemoveEach(_, _, _)
RemoveEach(q, index, len) ==
    IF index >= len THEN q ELSE RemoveEach(QbvhRemove(q, index), index + 1, len)

\* A remove_all that clears the store and leaves the Qbvh alone.
RemoveAllStoreOnly(o) == [o EXCEPT !.obstacles = << >>]

\* Obstacles::remove_all (raycast_world.rs 92-97).
ObstaclesRemoveAll(o) ==
    [obstacles |-> << >>, qbvh |-> RemoveEach(o.qbvh, 0, Len(o.obstacles))]

\* An add that takes the index after the push.
AddIndexAfterPush(o, obstacle) ==
    LET pushed == Append(o.obstacles, obstacle)
        index == Len(pushed)
    IN  [o |-> [obstacles |-> pushed, qbvh |-> QbvhPreUpdateOrInsert(o.qbvh, index)],
         index |-> index]

\* An add that does not tell the Qbvh.
AddUnregistered(o, obstacle) ==
    [o |-> [o EXCEPT !.obstacles = Append(@, obstacle)], index |-> Len(o.obstacles)]

\* Obstacles::add (raycast_world.rs 99-104).
ObstaclesAdd(o, obstacle) ==
    LET index == Len(o.obstacles)
    IN  [o |-> [obstacles |-> Append(o.obstacles, obstacle),
                qbvh |-> QbvhPreUpdateOrInsert(o.qbvh, index)],
         index |-> index]

\* Obstacles::refit (raycast_world.rs 106-111): Qbvh::refit asks the closure
\* for the box of every pending handle; the closure's self.obstacles[index.0]
\* panics (None) for a handle without an obstacle.
ObstaclesRefit(o) ==
    IF \E h \in o.qbvh.pending : ~IsSome(ObstaclesIndex(o, h))
    THEN None
    ELSE Some([o EXCEPT !.qbvh =
                 [pending |-> {},
                  leaves |-> [h \in RegisteredIn(o.qbvh) |->
                                 IF h \in o.qbvh.pending
                                 THEN BorderWallAabb(o.obstacles[h + 1].border)
                                 ELSE o.qbvh.leaves[h]],
                  balanced |-> o.qbvh.balanced]])

\* Obstacles::rebalance (raycast_world.rs 113-115).
ObstaclesRebalance(o) == [o EXCEPT !.qbvh = QbvhRebalance(@)]

\* The distance at which the ray from origin along the axis direction dir
\* meets the box, origin inside the box counting as 0; None when it misses.
RayToi(origin, dir, box) ==
    LET a == IF dir[1] # 0 THEN 1 ELSE 2
        b == 3 - a
        near == IF dir[a] > 0 THEN box.mins[a] - origin[a] ELSE origin[a] - box.maxs[a]
        far == IF dir[a] > 0 THEN box.maxs[a] - origin[a] ELSE origin[a] - box.mins[a]
    IN  IF origin[b] >= box.mins[b] /\ origin[b] <= box.maxs[b] /\ far >= 0
        THEN Some(IF near > 0 THEN near ELSE 0)
        ELSE None

\* Obstacles::find_ray_impact, the ray query of the index: the least distance
\* within max_distance among the leaves of the Qbvh, each leaf found through
\* its bounding box and met in the shape of its obstacle.
FindRayImpact(o, origin, dir, max_distance) ==
    LET hits == {h \in DOMAIN o.qbvh.leaves :
                    /\ IsSome(RayToi(origin, dir, o.qbvh.leaves[h]))
                    /\ Unwrap(RayToi(origin, dir, o.qbvh.leaves[h])) <= max_distance
                    /\ IsSome(ObstaclesIndex(o, h))
                    /\ IsSome(RayToi(origin, dir, BorderWallAabb(o.obstacles[h + 1].border)))
                    /\ Unwrap(RayToi(origin, dir, BorderWallAabb(o.obstacles[h + 1].border)))
                          <= max_distance}
        toi(h) == Unwrap(RayToi(origin, dir, BorderWallAabb(o.obstacles[h + 1].border)))
    IN  IF hits = {} THEN None
        ELSE Some(toi(CHOOSE h \in hits : \A k \in hits : toi(h) <= toi(k)))

(***************************************************************************)
(* State                                                                   *)
(***************************************************************************)
VARIABLES
    grid,              \* the Grid<TileState> resource: [width, height, tiles]
    pc,                \* flood_fill's position: "idle", "loop", "done", "oom"
    start,             \* flood_fill's start argument <<x, y>>
    color,             \* flood_fill's color argument
    pred,              \* flood_fill's color_equivalence argument
    start_color,       \* Option: the start tile's colour read at line 33
    seed_stack,        \* the seed stack
    orig,              \* the tiles when the first call was made
    first,             \* the tiles when the first call returned
    run,               \* 0 before the first call, 1 for it, 2 for the repeat
    overflow_checks,   \* the build: TRUE panics on integer overflow, FALSE wraps
    field,             \* what pick_reachability yields for each tile index
    gen_pc,            \* generate_island_into: "idle", "scan", "done", "panic"
    gen_grid,          \* its local Grid<TileGenState>
    current_group_id,  \* its current_group_id
    biggest_group,     \* its biggest_group: <<GroupId, size>>
    addr_idx,          \* addresses yielded so far by the scan of line 25
    groups,            \* the floods made so far: [id, size, at] in order
    test_inside,       \* collect_borders' test_inside: the tile values it accepts
    border_pc,         \* collect_borders: "idle", "scan", "done"
    border_idx,        \* addresses yielded so far by the loop of border.rs 69
    borders,           \* what the receiver was handed, in order: [border, tile, cardinal]
    at_calls,          \* Border::at calls made on their own: [tile, cardinal, border]
    world,             \* the Obstacles resource: [obstacles, qbvh]
    obs_pc,            \* "ok", or "panic" once a call on Obstacles has panicked
    epoch,             \* how many remove_all calls have returned
    adds,              \* how many add calls have returned
    issued,            \* every handle add has returned: [index, epoch]
    last_call,         \* the last call on Obstacles: [op, arg, result, prev]
    created,           \* the width and height Grid::new was given
    grid_pc,           \* "ok", or "panic" once an indexed access has panicked
    grid_call,         \* the last accessor call on the Grid: [op, arg, result, prev]
    pipe_run,          \* the number of pipeline runs completed on this classification
    pipe_first,        \* Some([tiles, borders]) of the first completed run
    running,           \* the system of the Update schedule that is running, or "none"
    todo,              \* the systems that have yet to run in this frame
    events             \* the ZoneCommand::Regenerate events waiting for their reader

fillVars == << pc, start, color, pred, start_color, seed_stack, orig, first, run >>
genVars == << overflow_checks, field, gen_pc, gen_grid, current_group_id,
              biggest_group, addr_idx, groups >>
borderVars == << test_inside, border_pc, border_idx, borders, at_calls >>
obsVars == << world, obs_pc, epoch, adds, issued, last_call >>
gridVars == << created, grid_pc, grid_call >>
pipeVars == << pipe_run, pipe_first, running, todo, events >>
otherVars == << borderVars, obsVars, gridVars, pipeVars >>
vars == << grid, fillVars, genVars, otherVars >>

TileStates == {"Floor", "Water"}
FillColors == {"Floor", "Water", "Colored"}
Predicates == {"eq", "open"}

Shapes == {sh \in (1 .. MaxTiles) \X (1 .. MaxTiles) : sh[1] * sh[2] <= MaxTiles}

GridsOf(w, h) ==
    {[width |-> w, height |-> h, tiles |-> t] : t \in [0 .. (w * h - 1) -> TileStates]}

FillIdle ==
    /\ pc = "idle" /\ start = << 0, 0 >> /\ color = "Floor" /\ pred = "eq"
    /\ start_color = None /\ seed_stack = << >> /\ run = 0
    /\ orig = grid.tiles /\ first = grid.tiles

BorderIdle ==
    /\ test_inside = {"Floor"} /\ border_pc = "idle" /\ border_idx = 0
    /\ borders = << >> /\ at_calls = << >>

NoCall == [op |-> "none", arg |-> None, result |-> None, prev |-> "none"]

ObsIdle ==
    /\ world = ObstaclesNew /\ obs_pc = "ok" /\ epoch = 0 /\ adds = 0
    /\ issued = {} /\ last_call = NoCall

GridIdle ==
    /\ created = << grid.width, grid.height >> /\ grid_pc = "ok" /\ grid_call = NoCall

PipeIdle ==
    /\ pipe_run = 0 /\ pipe_first = None
    /\ running = "none" /\ todo = {} /\ events = 0

OtherIdle == BorderIdle /\ ObsIdle /\ GridIdle /\ PipeIdle

GenIdle ==
    /\ gen_pc = "idle"
    /\ gen_grid = GridNew(grid.width, grid.height, Unreachable)
    /\ current_group_id = GroupIdDefault
    /\ biggest_group = << GroupIdDefault, 0 >>
    /\ addr_idx = 0
    /\ groups = << >>

InitFill ==
    /\ \E sh \in Shapes : grid \in GridsOf(sh[1], sh[2])
    /\ FillIdle
    /\ overflow_checks = FALSE
    /\ field = [i \in DOMAIN grid.tiles |-> "Closed"]
    /\ GenIdle
    /\ OtherIdle

(***************************************************************************)
(* flood_fill, step by step, on the Grid resource (main.rs mouse_picking)  *)
(***************************************************************************)
\* fill.rs 33-59 for given arguments.
Enter(st, c, p) ==
    LET t == GetTile(GridStore(grid), st[1], st[2])
    IN  /\ start' = st /\ color' = c /\ pred' = p
        /\ start_color' = t
        /\ IF IsSome(t)
           THEN LET f == FloodFillBegin(GridStore(grid), st, p, Unwrap(t), c)
                IN  /\ grid' = f.store.grid
                    /\ seed_stack' = f.seed_stack
                    /\ pc' = "loop"
           ELSE /\ grid' = grid
                /\ seed_stack' = << >>
                /\ pc' = "done"

\* A call of flood_fill with any start (also one past the grid), colour and predicate.
FloodFillCall ==
    /\ pc = "idle"
    /\ gen_pc = "idle"
    /\ \E x \in 0 .. grid.width, y \in 0 .. grid.height,
          c \in FillColors, p \in Predicates : Enter(<< x, y >>, c, p)
    /\ run' = 1
    /\ orig' = grid.tiles
    /\ first' = first
    /\ UNCHANGED << genVars, otherVars >>

\* One iteration of the while-let loop (fill.rs 65-107).  The process is
\* aborted ("oom") when the pushes of the iteration outgrow the stack's memory.
FloodFillIterate ==
    /\ pc = "loop"
    /\ seed_stack # << >>
    /\ LET f == FloodFillPop([store |-> GridStore(grid), seed_stack |-> seed_stack],
                             pred, Unwrap(start_color), color)
       IN  /\ grid' = f.store.grid
           /\ seed_stack' = f.seed_stack
           /\ pc' = IF Len(f.seed_stack) > MaxStack THEN "oom" ELSE "loop"
    /\ UNCHANGED << start, color, pred, start_color, orig, first, run >>
    /\ UNCHANGED << genVars, otherVars >>

\* The loop's exit: seed_stack.pop() is None and flood_fill returns (fill.rs 65, 108).
FloodFillReturn ==
    /\ pc = "loop"
    /\ seed_stack = << >>
    /\ pc' = "done"
    /\ first' = IF run = 1 THEN grid.tiles ELSE first
    /\ UNCHANGED << grid, start, color, pred, start_color, seed_stack, orig, run >>
    /\ UNCHANGED << genVars, otherVars >>

\* The same call made once more after the first has returned.
FloodFillAgain ==
    /\ pc = "done"
    /\ run = 1
    /\ Enter(start, color, pred)
    /\ run' = 2
    /\ first' = grid.tiles
    /\ orig' = orig
    /\ UNCHANGED << genVars, otherVars >>

NextFill == FloodFillCall \/ FloodFillIterate \/ FloodFillReturn

FillSpec == InitFill /\ [][NextFill]_vars

(***************************************************************************)
(* The 5x5 scenario: every tile Floor (open) except (2,2), which is Water. *)
(***************************************************************************)
RingGrid ==
    [width |-> 5, height |-> 5,
     tiles |-> [i \in 0 .. 24 |-> IF i = 2 * 5 + 2 THEN "Water" ELSE "Floor"]]

InitRing ==
    /\ grid = RingGrid
    /\ FillIdle
    /\ overflow_checks = FALSE
    /\ field = [i \in DOMAIN grid.tiles |-> "Closed"]
    /\ GenIdle
    /\ OtherIdle

NextRing == NextFill \/ FloodFillAgain

RingSpec == InitRing /\ [][NextRing]_vars

(***************************************************************************)
(* generate_island_into (procgen.rs 7-59) on the Grid resource (zone.rs)   *)
(***************************************************************************)
\* An output loop that writes the Open tiles only and leaves the others as
\* the grid had them.
GenerateOutOpenOnly(out, gen, primary_group_id) ==
    [out EXCEPT !.tiles =
       [i \in DOMAIN out.tiles |->
          IF ReachabilityOf(gen.tiles[i], primary_group_id) = "Open"
          THEN TileStateFrom("Open") ELSE out.tiles[i]]]

\* procgen.rs 50-58: every tile of out is assigned from the scratch grid.
GenerateOut(out, gen, primary_group_id) ==
    [out EXCEPT !.tiles =
       [i \in DOMAIN out.tiles |->
          TileStateFrom(ReachabilityOf(gen.tiles[i], primary_group_id))]]

\* A strip wide enough for one more single-tile group than GroupId has values.
WideWidth == 2 * (2^GroupIdBits) + 1

GenShapes == Shapes \cup {<< WideWidth, 1 >>}

\* The classifications explored: all of a small grid; of the wide strip, the
\* one with every second tile open.
Fields(w, h) ==
    IF w * h <= MaxTiles
    THEN [0 .. (w * h - 1) -> {"Open", "Closed"}]
    ELSE {[i \in 0 .. (w * h - 1) |-> IF i % 2 = 0 THEN "Open" ELSE "Closed"]}

InitGen ==
    /\ \E sh \in GenShapes :
         /\ grid = GridNew(sh[1], sh[2], "Floor")
         /\ field \in Fields(sh[1], sh[2])
    /\ overflow_checks \in BOOLEAN
    /\ FillIdle
    /\ GenIdle
    /\ OtherIdle

\* procgen.rs 10-19: the scratch grid, initialised from pick_reachability.
GenerateBegin ==
    /\ gen_pc = "idle"
    /\ pc = "idle"
    /\ gen_grid' = [GridNew(grid.width, grid.height, Unreachable)
                      EXCEPT !.tiles = [i \in DOMAIN field |-> TileGenStateFrom(field[i])]]
    /\ current_group_id' = GroupIdDefault
    /\ biggest_group' = << GroupIdDefault, 0 >>
    /\ addr_idx' = 0
    /\ groups' = << >>
    /\ gen_pc' = "scan"
    /\ UNCHANGED << grid, fillVars, overflow_checks, field, otherVars >>

\* procgen.rs 25-45: one address of the scan.
GenerateScan ==
    /\ gen_pc = "scan"
    /\ addr_idx < Len(Addresses(gen_grid.width, gen_grid.height))
    /\ LET addr == Addresses(gen_grid.width, gen_grid.height)[addr_idx + 1]
       IN  IF Unwrap(TileAt(gen_grid, addr[1], addr[2])) = Unassigned
           THEN LET proxy == FloodFill(ProxyStore(gen_grid), addr, "eq",
                                       ReachableGroup(current_group_id))
                    next_id == GroupIdNext(current_group_id, overflow_checks)
                IN  /\ gen_grid' = proxy.grid
                    /\ biggest_group' = BiggestGroup(biggest_group, current_group_id,
                                                     proxy.group_size)
                    /\ groups' = Append(groups, [id |-> current_group_id,
                                                 size |-> proxy.group_size,
                                                 at |-> addr_idx])
                    /\ IF IsSome(next_id)
                       THEN /\ current_group_id' = Unwrap(next_id)
                            /\ gen_pc' = "scan"
                       ELSE /\ current_group_id' = current_group_id
                            /\ gen_pc' = "panic"
           ELSE UNCHANGED << gen_grid, biggest_group, groups, current_group_id, gen_pc >>
    /\ addr_idx' = addr_idx + 1
    /\ UNCHANGED << grid, fillVars, overflow_checks, field, otherVars >>

\* procgen.rs 47-58: the primary group, then every tile of out.
GenerateEmit ==
    /\ gen_pc = "scan"
    /\ addr_idx = Len(Addresses(gen_grid.width, gen_grid.height))
    /\ LET primary_group_id == biggest_group[1]
       IN  grid' = GenerateOut(grid, gen_grid, primary_group_id)
    /\ gen_pc' = "done"
    /\ UNCHANGED << fillVars, overflow_checks, field, gen_grid, current_group_id,
                    biggest_group, addr_idx, groups, otherVars >>

NextGen == GenerateBegin \/ GenerateScan \/ GenerateEmit

GenSpec == InitGen /\ [][NextGen]_vars

(***************************************************************************)
(* collect_borders (border.rs 65-107) over the Grid resource               *)
(***************************************************************************)
\* A call with any test_inside, told by the tile values it accepts.
CollectBordersCall ==
    /\ border_pc = "idle"
    /\ at_calls = << >>
    /\ pc = "idle" /\ gen_pc = "idle"
    /\ test_inside' \in SUBSET TileStates
    /\ border_pc' = "scan"
    /\ border_idx' = 0
    /\ borders' = << >>
    /\ UNCHANGED << grid, fillVars, genVars, at_calls, obsVars, gridVars, pipeVars >>

\* border.rs 69-106: one address of the loop.
CollectBordersVisit ==
    /\ border_pc = "scan"
    /\ border_idx < Len(Addresses(grid.width, grid.height))
    /\ LET addr == Addresses(grid.width, grid.height)[border_idx + 1]
       IN  borders' = borders \o CollectBordersAt(grid, test_inside, addr)
    /\ border_idx' = border_idx + 1
    /\ UNCHANGED << grid, fillVars, genVars, test_inside, border_pc, at_calls, obsVars, gridVars, pipeVars >>

\* The loop's end and the return.
CollectBordersReturn ==
    /\ border_pc = "scan"
    /\ border_idx = Len(Addresses(grid.width, grid.height))
    /\ border_pc' = "done"
    /\ UNCHANGED << grid, fillVars, genVars, test_inside, border_idx, borders, at_calls, obsVars, gridVars, pipeVars >>

NextBorder == CollectBordersCall \/ CollectBordersVisit \/ CollectBordersReturn

BorderSpec == InitFill /\ [][NextBorder]_vars

\* Border::at called for any tile of a small range and any cardinal, twice.
BorderAtCall ==
    /\ border_pc = "idle"
    /\ pc = "idle" /\ gen_pc = "idle"
    /\ Len(at_calls) < 2
    /\ \E x \in 0 .. MaxCoord, y \in 0 .. MaxCoord, c \in Cardinals :
         at_calls' = Append(at_calls, [tile |-> << x, y >>, cardinal |-> c,
                                       border |-> BorderAt(<< x, y >>, c)])
    /\ UNCHANGED << grid, fillVars, genVars, test_inside, border_pc, border_idx, borders, obsVars, gridVars, pipeVars >>

EdgeSpec == InitRing /\ [][BorderAtCall]_vars

(***************************************************************************)
(* Calls on the Obstacles resource (raycast_world.rs 72-116, laser.rs 84)  *)
(***************************************************************************)
\* The borders the walls handed to add are built from.
WallBorders == {Border(<< 1, 0 >>, TRUE), Border(<< 2, 0 >>, TRUE),
                Border(<< 0, 1 >>, FALSE)}

\* The rays asked for: from the middle of tile (0,0), along an axis, short
\* of the nearest wall or past the farthest.
RayOrigins == {<< TileSize \div 2, TileSize \div 2 >>}
RayDirections == {<< 1, 0 >>, << -1, 0 >>, << 0, 1 >>}
RayLengths == {3, 30}

\* The record of a call; an add also records the call it followed.
Called(op, arg, result) ==
    last_call' = [op |-> op, arg |-> arg, result |-> result,
                  prev |-> IF op = "add" /\ last_call.op = "remove_all"
                           THEN "remove_all" ELSE "none"]

ObsQuiet == UNCHANGED << grid, fillVars, genVars, borderVars, gridVars, pipeVars >>

\* add(Obstacle::border_wall(b, dims)); the obstacle is told apart from those
\* of other generations by the number of remove_all calls before it.
AddCall ==
    /\ obs_pc = "ok"
    /\ adds < MaxAdds
    /\ \E b \in WallBorders :
         LET r == ObstaclesAdd(world, [border |-> b, epoch |-> epoch])
         IN  /\ world' = r.o
             /\ issued' = issued \cup {[index |-> r.index, epoch |-> epoch]}
             /\ Called("add", Some(b), Some(r.index))
    /\ adds' = adds + 1
    /\ UNCHANGED << obs_pc, epoch >>
    /\ ObsQuiet

RemoveAllCall ==
    /\ obs_pc = "ok"
    /\ epoch < MaxClears
    /\ world' = ObstaclesRemoveAll(world)
    /\ epoch' = epoch + 1
    /\ Called("remove_all", None, None)
    /\ UNCHANGED << obs_pc, adds, issued >>
    /\ ObsQuiet

RefitCall ==
    /\ obs_pc = "ok"
    /\ LET r == ObstaclesRefit(world)
       IN  IF IsSome(r)
           THEN /\ world' = Unwrap(r)
                /\ obs_pc' = "ok"
                /\ Called("refit", None, Some(Cardinality(world.qbvh.pending)))
           ELSE /\ world' = world
                /\ obs_pc' = "panic"
                /\ Called("refit", None, None)
    /\ UNCHANGED << epoch, adds, issued >>
    /\ ObsQuiet

RebalanceCall ==
    /\ obs_pc = "ok"
    /\ world' = ObstaclesRebalance(world)
    /\ Called("rebalance", None, None)
    /\ UNCHANGED << obs_pc, epoch, adds, issued >>
    /\ ObsQuiet

\* obstacles[h] with a handle some add has returned, stale or not.
IndexCall ==
    /\ obs_pc = "ok"
    /\ \E h \in issued :
         LET r == ObstaclesIndex(world, h.index)
         IN  /\ obs_pc' = IF IsSome(r) THEN "ok" ELSE "panic"
             /\ Called("index", Some(h), r)
    /\ UNCHANGED << world, epoch, adds, issued >>
    /\ ObsQuiet

\* &mut obstacles[h] with a handle some add has returned, stale or not.
IndexMutCall ==
    /\ obs_pc = "ok"
    /\ \E h \in issued :
         LET r == ObstaclesIndexMut(world, h.index)
         IN  /\ world' = r.o
             /\ obs_pc' = IF IsSome(r.result) THEN "ok" ELSE "panic"
             /\ Called("index_mut", Some(h), r.result)
    /\ UNCHANGED << epoch, adds, issued >>
    /\ ObsQuiet

\* find_laser_impact (laser.rs 84-88) with a laser that has origin and direction.
RayCall ==
    /\ obs_pc = "ok"
    /\ \E origin \in RayOrigins, dir \in RayDirections, max_length \in RayLengths :
         Called("ray", Some(<< origin, dir, max_length >>),
                FindRayImpact(world, origin, dir, max_length))
    /\ UNCHANGED << world, obs_pc, epoch, adds, issued >>
    /\ ObsQuiet

NextObs ==
    \/ AddCall \/ RemoveAllCall \/ RefitCall \/ RebalanceCall
    \/ IndexCall \/ IndexMutCall \/ RayCall

ObsSpec == InitRing /\ [][NextObs]_vars

(***************************************************************************)
(* Every way the Grid resource is read and written (grid.rs 29-97),        *)
(* interleaved with flood_fill and generate_island_into calls              *)
(***************************************************************************)
GridShapes == {sh \in (1 .. MaxGridTiles) \X (1 .. MaxGridTiles) : sh[1] * sh[2] <= MaxGridTiles}

\* The classifications the generator is given here: every second tile open,
\* beginning with an open or with a closed one.
GridFields(w, h) ==
    {[i \in 0 .. (w * h - 1) |-> IF i % 2 = k THEN "Open" ELSE "Closed"] : k \in {0, 1}}

\* Grid::new(width, height), every tile the default Floor.
InitGrid ==
    /\ \E sh \in GridShapes :
         /\ grid = GridNew(sh[1], sh[2], "Floor")
         /\ field \in GridFields(sh[1], sh[2])
    /\ overflow_checks = FALSE
    /\ pc = "idle" /\ start = << 0, 0 >> /\ color = "Floor" /\ pred = "eq"
    /\ start_color = None /\ seed_stack = << >> /\ run = 0
    /\ orig = << >> /\ first = << >>
    /\ GenIdle
    /\ OtherIdle

GridCalled(op, arg, result) ==
    grid_call' = [op |-> op, arg |-> arg, result |-> result, prev |-> "none"]

GridAtRest == grid_pc = "ok" /\ pc = "idle" /\ gen_pc = "idle"

GridQuiet == UNCHANGED << fillVars, genVars, borderVars, obsVars, created, pipeVars >>

\* The indices at which the tiles t differ from those of the grid.
Wrote(t) == {i \in DOMAIN grid.tiles \cup DOMAIN t :
                i \notin DOMAIN t \/ i \notin DOMAIN grid.tiles \/ t[i] # grid.tiles[i]}

\* tile_at(&TileAddress(x, y)) for an address in the grid or up to two past it.
TileAtCall ==
    /\ GridAtRest
    /\ \E x \in 0 .. grid.width + 1, y \in 0 .. grid.height + 1 :
         GridCalled("tile_at", << x, y >>, TileAt(grid, x, y))
    /\ UNCHANGED << grid, grid_pc >>
    /\ GridQuiet

\* get_tile(x, y) of Tiles<u32>.
GetTileCall ==
    /\ GridAtRest
    /\ \E x \in 0 .. grid.width + 1, y \in 0 .. grid.height + 1 :
         GridCalled("get_tile", << x, y >>, GridGetTile(grid, x, y))
    /\ UNCHANGED << grid, grid_pc >>
    /\ GridQuiet

\* set_tile(x, y, tile) of Tiles<u32>; the call is recorded with the indices
\* whose tile it changed.
SetTileCall ==
    /\ GridAtRest
    /\ \E x \in 0 .. grid.width + 1, y \in 0 .. grid.height + 1, tile \in FillColors :
         LET g == GridSetTile(grid, x, y, tile)
         IN  /\ grid' = g
             /\ GridCalled("set_tile", << x, y >>, Some(Wrote(g.tiles)))
    /\ UNCHANGED grid_pc
    /\ GridQuiet

\* grid[addr] = tile through IndexMut (grid.rs 79-83), which panics off the grid.
IndexMutWrite ==
    /\ GridAtRest
    /\ \E x \in 0 .. grid.width + 1, y \in 0 .. grid.height + 1, tile \in FillColors :
         IF IsSome(TileAt(grid, x, y))
         THEN LET g == GridSetTile(grid, x, y, tile)
              IN  /\ grid' = g
                  /\ grid_pc' = "ok"
                  /\ GridCalled("index_mut", << x, y >>, Some(Wrote(g.tiles)))
         ELSE /\ grid' = grid
              /\ grid_pc' = "panic"
              /\ GridCalled("index_mut", << x, y >>, None)
    /\ GridQuiet

\* flood_fill has returned to its caller.
FloodFillForget ==
    /\ pc = "done"
    /\ pc' = "idle" /\ start' = << 0, 0 >> /\ color' = "Floor" /\ pred' = "eq"
    /\ start_color' = None /\ seed_stack' = << >> /\ run' = 0
    /\ orig' = << >> /\ first' = << >>
    /\ UNCHANGED << grid, genVars, otherVars >>

\* generate_island_into has returned; the next call sees another noise field.
GenerateForget ==
    /\ gen_pc = "done"
    /\ gen_pc' = "idle"
    /\ gen_grid' = GridNew(grid.width, grid.height, Unreachable)
    /\ current_group_id' = GroupIdDefault
    /\ biggest_group' = << GroupIdDefault, 0 >>
    /\ addr_idx' = 0
    /\ groups' = << >>
    /\ field' \in GridFields(grid.width, grid.height)
    /\ UNCHANGED << grid, fillVars, overflow_checks, otherVars >>

\* The caller has taken what the accessor returned.
GridCallForget ==
    /\ grid_pc = "ok"
    /\ grid_call # NoCall
    /\ grid_call' = NoCall
    /\ UNCHANGED << grid, grid_pc >>
    /\ GridQuiet

NextGrid ==
    \/ TileAtCall \/ GetTileCall \/ SetTileCall \/ IndexMutWrite \/ GridCallForget
    \/ (grid_call = NoCall /\ NextFill) \/ FloodFillForget
    \/ (grid_call = NoCall /\ NextGen) \/ GenerateForget

GridSpec == InitGrid /\ [][NextGrid]_vars

(***************************************************************************)
(* neighbors_of on a grid of any shape                                     *)
(***************************************************************************)
InitShape ==
    /\ \E sh \in Shapes : grid = GridNew(sh[1], sh[2], "Floor")
    /\ FillIdle
    /\ overflow_checks = FALSE
    /\ field = [i \in DOMAIN grid.tiles |-> "Closed"]
    /\ GenIdle
    /\ OtherIdle

\* neighbors_of(centre, nt) for a centre inside the grid, run to exhaustion.
NeighborsOfCall ==
    /\ GridAtRest
    /\ \E x \in 0 .. grid.width - 1, y \in 0 .. grid.height - 1,
          nt \in {"FourWay", "EightWay"} :
         GridCalled("neighbors_of", << x, y, nt >>, Some(NeighborsOf(grid, << x, y >>, nt)))
    /\ UNCHANGED << grid, grid_pc >>
    /\ GridQuiet

NeighborSpec == InitShape /\ [][NeighborsOfCall]_vars

(***************************************************************************)
(* The pipeline run twice on one classification: generate_island_into,     *)
(* then collect_borders with the floor test, on a grid whose content       *)
(* before each run is arbitrary.                                           *)
(***************************************************************************)
InitPipe ==
    /\ \E sh \in GridShapes :
         /\ grid = GridNew(sh[1], sh[2], "Floor")
         /\ field \in Fields(sh[1], sh[2])
    /\ overflow_checks = FALSE
    /\ FillIdle
    /\ GenIdle
    /\ OtherIdle

\* collect_borders(grid, |tile| tile is Floor) is entered.
BordersBegin ==
    /\ test_inside' = {"Floor"}
    /\ border_pc' = "scan"
    /\ border_idx' = 0
    /\ borders' = << >>
    /\ UNCHANGED at_calls

\* The border rebuild that follows a generation.
PipelineBorders ==
    /\ gen_pc = "done"
    /\ border_pc = "idle"
    /\ BordersBegin
    /\ UNCHANGED << grid, fillVars, genVars, obsVars, gridVars, pipeVars >>

\* The first run is over; the pipeline is run again on the same
\* classification, whatever the grid holds by then.
PipelineAgain ==
    /\ gen_pc = "done"
    /\ border_pc = "done"
    /\ pipe_run = 0
    /\ pipe_run' = 1
    /\ pipe_first' = Some([tiles |-> grid.tiles, borders |-> borders])
    /\ grid' \in GridsOf(grid.width, grid.height)
    /\ gen_pc' = "idle"
    /\ gen_grid' = GridNew(grid.width, grid.height, Unreachable)
    /\ current_group_id' = GroupIdDefault
    /\ biggest_group' = << GroupIdDefault, 0 >>
    /\ addr_idx' = 0
    /\ groups' = << >>
    /\ test_inside' = {"Floor"}
    /\ border_pc' = "idle"
    /\ border_idx' = 0
    /\ borders' = << >>
    /\ UNCHANGED << fillVars, overflow_checks, field, at_calls, obsVars, gridVars,
                    running, todo, events >>

NextPipe ==
    \/ NextGen
    \/ PipelineBorders \/ CollectBordersVisit \/ CollectBordersReturn
    \/ PipelineAgain

PipeSpec == InitPipe /\ [][NextPipe]_vars

(***************************************************************************)
(* Frames of the Update schedule (zone.rs 19, laser.rs 15): each system    *)
(* runs once per frame, in an order the schedule does not fix.  A system   *)
(* that holds ResMut<Grid> or writes the Obstacles runs alone.             *)
(***************************************************************************)
Systems == {"handle_zone_commands", "rebuild_obstacles", "solve_laser_impacts"}

\* After startup_init_zone on a noise field without an Open tile: every tile
\* Water, no border, an empty obstacle index.
InitFrame ==
    /\ \E sh \in GridShapes :
         /\ grid = GridNew(sh[1], sh[2], "Water")
         /\ field = [i \in 0 .. (sh[1] * sh[2] - 1) |-> "Closed"]
    /\ overflow_checks = FALSE
    /\ FillIdle
    /\ GenIdle
    /\ OtherIdle

\* A new frame; a Regenerate command may have been sent since the last one.
FrameBegin ==
    /\ running = "none"
    /\ todo = {}
    /\ todo' = Systems
    /\ events' \in {0, 1}
    /\ UNCHANGED << grid, fillVars, genVars, borderVars, obsVars, gridVars,
                    pipe_run, pipe_first, running >>

\* handle_zone_commands (zone.rs 40-54): without a command it returns at
\* once; with one it reseeds the noise and enters generate_island_into.
HandleZoneCommandsBegin ==
    /\ running = "none"
    /\ "handle_zone_commands" \in todo
    /\ todo' = todo \ {"handle_zone_commands"}
    /\ IF events > 0
       THEN /\ running' = "handle_zone_commands"
            /\ events' = 0
            /\ field' \in GridFields(grid.width, grid.height)
       ELSE UNCHANGED << running, events, field >>
    /\ UNCHANGED << grid, fillVars, overflow_checks, gen_pc, gen_grid, current_group_id,
                    biggest_group, addr_idx, groups, borderVars, obsVars, gridVars,
                    pipe_run, pipe_first >>

\* generate_island_into has returned and the system ends.
HandleZoneCommandsEnd ==
    /\ running = "handle_zone_commands"
    /\ gen_pc = "done"
    /\ running' = "none"
    /\ gen_pc' = "idle"
    /\ gen_grid' = GridNew(grid.width, grid.height, Unreachable)
    /\ current_group_id' = GroupIdDefault
    /\ biggest_group' = << GroupIdDefault, 0 >>
    /\ addr_idx' = 0
    /\ groups' = << >>
    /\ UNCHANGED << grid, fillVars, overflow_checks, field, borderVars, obsVars, gridVars,
                    pipe_run, pipe_first, todo, events >>

\* The system that rebuilds the borders and the obstacle index from the
\* grid; it is given every frame, which is the most it can do.
RebuildBegin ==
    /\ running = "none"
    /\ "rebuild_obstacles" \in todo
    /\ border_pc = "idle"
    /\ todo' = todo \ {"rebuild_obstacles"}
    /\ running' = "rebuild_obstacles"
    /\ BordersBegin
    /\ UNCHANGED << grid, fillVars, genVars, obsVars, gridVars, pipe_run, pipe_first,
                    events >>

\* add for every border, in order.
RECURSIVE AddAll(_, _, _, _)
AddAll(o, bs, k, tag) ==
    IF k > Len(bs) THEN o
    ELSE AddAll(ObstaclesAdd(o, [border |-> bs[k], epoch |-> tag]).o, bs, k + 1, tag)

\* remove_all, add for every border, refit, rebalance (spec 4.5).
RebuildIndex ==
    /\ running = "rebuild_obstacles"
    /\ border_pc = "done"
    /\ world' = ObstaclesRebalance(Unwrap(ObstaclesRefit(
                    AddAll(ObstaclesRemoveAll(world), borders, 1, epoch))))
    /\ border_pc' = "idle"
    /\ border_idx' = 0
    /\ borders' = << >>
    /\ running' = "none"
    /\ UNCHANGED << grid, fillVars, genVars, test_inside, at_calls, obs_pc, epoch, adds,
                    issued, last_call, gridVars, pipe_run, pipe_first, todo, events >>

\* solve_laser_impacts (laser.rs 75-82) is entered; no laser is solved yet.
SolveLaserImpactsBegin ==
    /\ running = "none"
    /\ "solve_laser_impacts" \in todo
    /\ todo' = todo \ {"solve_laser_impacts"}
    /\ running' = "solve_laser_impacts"
    /\ last_call' = NoCall
    /\ UNCHANGED << grid, fillVars, genVars, borderVars, world, obs_pc, epoch, adds,
                    issued, gridVars, pipe_run, pipe_first, events >>

\* The loop over the lasers is over.
SolveLaserImpactsEnd ==
    /\ running = "solve_laser_impacts"
    /\ running' = "none"
    /\ UNCHANGED << grid, fillVars, genVars, borderVars, obsVars, gridVars,
                    pipe_run, pipe_first, todo, events >>

NextFrame ==
    \/ FrameBegin
    \/ HandleZoneCommandsBegin
    \/ (running = "handle_zone_commands" /\ NextGen)
    \/ HandleZoneCommandsEnd
    \/ RebuildBegin
    \/ (running = "rebuild_obstacles" /\ (CollectBordersVisit \/ CollectBordersReturn))
    \/ RebuildIndex
    \/ SolveLaserImpactsBegin
    \/ (running = "solve_laser_impacts" /\ RayCall)
    \/ SolveLaserImpactsEnd

FrameSpec == InitFrame /\ [][NextFrame]_vars

(***************************************************************************)
(* The Grid at machine width: Grid::new's usize capacity check and the u32 *)
(* index arithmetic of tile_at / tile_at_mut, on a 64-bit target where     *)
(* usize has twice the bits of u32.                                        *)
(***************************************************************************)
U32Max == 2^WordBits - 1
UsizeBits == 2 * WordBits

\* (width as usize).checked_mul(height as usize)
GridNewCapacity(w, h) == IF w * h < 2^UsizeBits THEN Some(w * h) ELSE None

\* u32 * u32 and u32 + u32: with overflow checks an overflow panics (None),
\* without them the result wraps.
U32Mul(a, b, checks) ==
    IF a * b <= U32Max THEN Some(a * b)
    ELSE IF checks THEN None ELSE Some((a * b) % (2^WordBits))

U32Add(a, b, checks) ==
    IF a + b <= U32Max THEN Some(a + b)
    ELSE IF checks THEN None ELSE Some((a + b) % (2^WordBits))

\* (pos.1 * self.width + pos.0) as usize
TileIndexU32(width, x, y, checks) ==
    LET m == U32Mul(y, width, checks)
    IN  IF IsSome(m) THEN U32Add(Unwrap(m), x, checks) ELSE None

\* Every grid Grid::new accepts, in either build.
InitWord ==
    /\ \E w \in 1 .. U32Max, h \in 1 .. U32Max :
         /\ IsSome(GridNewCapacity(w, h))
         /\ grid = GridNew(w, h, "Floor")
    /\ overflow_checks \in BOOLEAN
    /\ FillIdle
    /\ field = [i \in DOMAIN grid.tiles |-> "Closed"]
    /\ GenIdle
    /\ OtherIdle

\* *grid.tile_at_mut(&TileAddress(x, y)).unwrap() = Colored, for an address
\* inside the grid; the call is recorded with the array index it used.
TileAtMutWrite ==
    /\ grid_pc = "ok"
    /\ grid_call = NoCall
    /\ \E x \in 0 .. grid.width - 1, y \in 0 .. grid.height - 1 :
         LET i == TileIndexU32(grid.width, x, y, overflow_checks)
         IN  /\ IF IsSome(i) /\ Unwrap(i) \in DOMAIN grid.tiles
                THEN /\ grid' = [grid EXCEPT !.tiles[Unwrap(i)] = "Colored"]
                     /\ grid_pc' = "ok"
                ELSE /\ grid' = grid
                     /\ grid_pc' = "panic"
             /\ GridCalled("tile_at_mut", << x, y >>, i)
    /\ GridQuiet

\* grid.tile_at(&TileAddress(x, y)) after the write, for an address inside
\* the grid; arg is the address read, then the address written before.
TileAtRead ==
    /\ grid_pc = "ok"
    /\ grid_call.op \in {"tile_at_mut", "tile_at"}
    /\ \E x \in 0 .. grid.width - 1, y \in 0 .. grid.height - 1 :
         LET i == TileIndexU32(grid.width, x, y, overflow_checks)
             written == << grid_call.arg[Len(grid_call.arg) - 1],
                           grid_call.arg[Len(grid_call.arg)] >>
         IN  /\ IF IsSome(i) /\ Unwrap(i) \in DOMAIN grid.tiles
                THEN /\ GridCalled("tile_at", << x, y >> \o written,
                                   Some(grid.tiles[Unwrap(i)]))
                     /\ grid_pc' = "ok"
                ELSE /\ GridCalled("tile_at", << x, y >> \o written, None)
                     /\ grid_pc' = "panic"
    /\ UNCHANGED grid
    /\ GridQuiet

NextWord == TileAtMutWrite \/ TileAtRead

WordSpec == InitWord /\ [][NextWord]_vars

(***************************************************************************)
(* find_path (pathing.rs 93-128)                                           *)
(***************************************************************************)
\* TileState::is_floor
IsFloor(t) == t = "Floor"

\* TileAddress + (i32, i32): None when a coordinate would leave u32.
AddressPlus(tile, dv) ==
    IF tile[1] + dv[1] < 0 \/ tile[2] + dv[2] < 0 THEN None
    ELSE Some(<< tile[1] + dv[1], tile[2] + dv[2] >>)

\* The is_floor closure: grid.tile_at(t).is_some_and(|state| state.is_floor())
IsFloorAt(g, t) ==
    LET o == TileAt(g, t[1], t[2]) IN IsSome(o) /\ IsFloor(Unwrap(o))

\* (tile + dv).filter(is_floor)
StepTo(g, tile, dv) ==
    LET t == AddressPlus(tile, dv)
    IN  IF IsSome(t) /\ IsFloorAt(g, Unwrap(t)) THEN t ELSE None

\* cardinal_ds, in the order N, E, S, W
CardinalDs == << << 0, 1 >>, << 1, 0 >>, << 0, -1 >>, << -1, 0 >> >>

PathCardinals(g, tile) == [i \in 1 .. 4 |-> StepTo(g, tile, CardinalDs[i])]

\* A diagonal step that is taken whatever lies on either side of it.
TryDiagonalCutting(g, tile, i, j, dx, dy) == StepTo(g, tile, << dx, dy >>)

\* try_diagonal(i, j, dx, dy); i and j index cardinals from 0 as in the source.
TryDiagonal(g, tile, i, j, dx, dy) ==
    LET cardinals == PathCardinals(g, tile)
    IN  IF IsSome(cardinals[i + 1]) /\ IsSome(cardinals[j + 1])
        THEN StepTo(g, tile, << dx, dy >>)
        ELSE None

PathDiagonals(g, tile) ==
    << TryDiagonal(g, tile, 0, 1, 1, 1), TryDiagonal(g, tile, 1, 2, 1, -1),
       TryDiagonal(g, tile, 2, 3, -1, -1), TryDiagonal(g, tile, 3, 0, -1, 1) >>

\* The successors closure: the tiles one step away (the costs 1414 and 1000
\* order the search but do not decide which tiles are successors).
Successors(g, tile) ==
    {Unwrap(PathDiagonals(g, tile)[k]) : k \in {k \in 1 .. 4 : IsSome(PathDiagonals(g, tile)[k])}}
    \cup {Unwrap(PathCardinals(g, tile)[k]) : k \in {k \in 1 .. 4 : IsSome(PathCardinals(g, tile)[k])}}

\* The paths of P, each continued by one successor it has not visited.
ExtendPaths(g, P) ==
    UNION {{Append(q, t) : t \in {t \in Successors(g, q[Len(q)]) :
                                     \A k \in DOMAIN q : q[k] # t}} : q \in P}

RECURSIVE PathsFrom(_, _, _)
PathsFrom(g, P, acc) ==
    IF P = {} THEN acc ELSE PathsFrom(g, ExtendPaths(g, P), acc \cup P)

\* astar::astar(&start, successors, heuristic, |&tile| tile == goal): a path
\* of successor steps from start to the goal that visits no tile twice, or
\* None when there is none.  Which of the paths is returned is left open.
Astar(g, from, goal) ==
    LET found == {q \in PathsFrom(g, {<< from >>}, {}) : q[Len(q)] = goal}
    IN  IF found = {} THEN {None} ELSE {Some(q) : q \in found}

\* find_path(grid, start, goal)
FindPath(g, from, goal) == Astar(g, from, goal)

PathShapes ==
    {sh \in (1 .. MaxPathTiles) \X (1 .. MaxPathTiles) : sh[1] * sh[2] <= MaxPathTiles}

InitPath ==
    /\ \E sh \in PathShapes : grid \in GridsOf(sh[1], sh[2])
    /\ FillIdle
    /\ overflow_checks = FALSE
    /\ field = [i \in DOMAIN grid.tiles |-> "Closed"]
    /\ GenIdle
    /\ OtherIdle

\* find_path for a start and a goal in the grid or one past it; arg is the
\* start followed by the goal.
FindPathCall ==
    /\ GridAtRest
    /\ grid_call = NoCall
    /\ \E sx \in 0 .. grid.width, sy \in 0 .. grid.height,
          gx \in 0 .. grid.width, gy \in 0 .. grid.height :
         \E r \in FindPath(grid, << sx, sy >>, << gx, gy >>) :
            GridCalled("find_path", << sx, sy, gx, gy >>, r)
    /\ UNCHANGED << grid, grid_pc >>
    /\ GridQuiet

PathSpec == InitPath /\ [][FindPathCall]_vars

(***************************************************************************)
(* Reference notions the properties are stated with: 4-connected regions   *)
(* of a row-major tile array, computed independently of the fill.          *)
(***************************************************************************)
IndexAdjacent(w, i, j) ==
    \/ j = i + 1 /\ j % w # 0
    \/ i = j + 1 /\ i % w # 0
    \/ j = i + w
    \/ i = j + w

\* The indices of ok reachable from S through 4-adjacent indices of ok.
RECURSIVE Grow(_, _, _)
Grow(w, S, ok) ==
    LET N == S \cup {j \in ok : \E i \in S : IndexAdjacent(w, i, j)}
    IN  IF N = S THEN S ELSE Grow(w, N, ok)

SetMax(S) == CHOOSE x \in S : \A y \in S : y <= x
SetMin(S) == CHOOSE x \in S : \A y \in S : x <= y

\* flood_fill: the tiles whose original colour satisfies the predicate against
\* the start tile's original colour, and those of them connected to the start.
StartIndex == start[2] * grid.width + start[1]
Matching == {i \in DOMAIN orig : ColorEquivalence(pred, orig[i], orig[StartIndex])}
StartComponent == Grow(grid.width, {StartIndex}, Matching)
StartInGrid == start[1] < grid.width /\ start[2] < grid.height

\* generate_island_into: the classified-Open tiles and their components.
OpenIndices == {i \in DOMAIN field : field[i] = "Open"}
OpenComponents == {Grow(grid.width, {a}, OpenIndices) : a \in OpenIndices}
FloorIndices == {i \in DOMAIN grid.tiles : grid.tiles[i] = "Floor"}
LargestSize == SetMax({Cardinality(c) : c \in OpenComponents})
LargestComponents ==
    LET comps == OpenComponents
        m == SetMax({Cardinality(c) : c \in comps})
    IN  {c \in comps : Cardinality(c) = m}

(***************************************************************************)
(* Properties                                                              *)
(***************************************************************************)
\* C1: when flood_fill returns from a call with an in-range start, the equality
\* predicate and a fill value other than the start tile's colour, every tile
\* 4-connected to the start through tiles of the start's original colour holds
\* the fill value.
C1_ComponentFilled ==
    (pc = "done" /\ run = 1 /\ StartInGrid /\ pred = "eq" /\ color # orig[StartIndex])
        => \A i \in StartComponent : grid.tiles[i] = color

\* C1 witness: the fill has returned on the 3x3 grid whose open tiles wrap
\* around a closed centre, all eight of them recoloured.
C1_Witness ==
    /\ pc = "done" /\ run = 1 /\ pred = "eq" /\ color = "Colored"
    /\ grid.width = 3 /\ grid.height = 3 /\ start = << 1, 2 >>
    /\ orig = [i \in 0 .. 8 |-> IF i = 4 THEN "Water" ELSE "Floor"]
    /\ grid.tiles = [i \in 0 .. 8 |-> IF i = 4 THEN "Water" ELSE "Colored"]

\* C2: at every step of a flood_fill call, every tile that fails the predicate
\* against the start's original colour, and every tile that satisfies it but is
\* not connected to the start, holds its original value.
C2_OthersUntouched ==
    (run = 1 /\ StartInGrid)
        => \A i \in DOMAIN orig \ StartComponent : grid.tiles[i] = orig[i]

\* C2 witness: a returned fill that recoloured its region, next to a tile that
\* fails the predicate and apart from a tile that satisfies it.
C2_Witness ==
    /\ pc = "done" /\ run = 1 /\ StartInGrid
    /\ \E i \in StartComponent : grid.tiles[i] # orig[i]
    /\ \E j \in Matching : j \notin StartComponent
    /\ \E k \in DOMAIN orig \ Matching :
          \E i \in StartComponent : IndexAdjacent(grid.width, i, k)

\* C3: every flood_fill call terminates: its seed stack empties and it
\* returns.  A call that does not return keeps pushing seeds until the stack
\* outgrows its memory and the process is aborted, so a terminating flood_fill
\* never gets there.
C3_Terminates == pc # "oom"

\* C4: a second flood_fill with the same start, the equality predicate and the
\* same fill value, made after the first returned, runs to its return (it never
\* pushes seeds until the stack outgrows its memory) and leaves the grid as the
\* first left it.
C4_RefillIdempotent == (run = 2 /\ pred = "eq") => (pc # "oom" /\ grid.tiles = first)

\* C5: a call whose start has no tile returns at once: no tile written, no
\* seed pushed.
C5_NoTileNoEffect ==
    (run = 1 /\ ~StartInGrid)
        => /\ pc = "done"
           /\ start_color = None
           /\ seed_stack = << >>
           /\ grid.tiles = orig

\* C5 witness: a returned call whose start lies one column past a grid that
\* has tiles the fill value would change.
C5_Witness ==
    /\ pc = "done" /\ run = 1
    /\ start[1] = grid.width /\ start[2] < grid.height
    /\ pred = "eq" /\ color = "Colored"
    /\ \A i \in DOMAIN orig : orig[i] = "Floor"
    /\ grid.width * grid.height >= 4

\* C6: on the 5x5 grid that is open except for (2,2), the fill from (0,0) with
\* the equality predicate and a fresh value ends with exactly 24 tiles of that
\* value and (2,2) still closed.
C6_RingScenario ==
    (pc = "done" /\ run = 1 /\ orig = RingGrid.tiles /\ grid.width = 5
       /\ start = << 0, 0 >> /\ pred = "eq" /\ color = "Colored")
        => /\ Cardinality({i \in DOMAIN grid.tiles : grid.tiles[i] = "Colored"}) = 24
           /\ TileAt(grid, 2, 2) = Some("Water")

\* C6 witness: that fill has returned.
C6_Witness ==
    /\ pc = "done" /\ run = 1 /\ orig = RingGrid.tiles
    /\ start = << 0, 0 >> /\ pred = "eq" /\ color = "Colored"
    /\ grid.tiles[0] = "Colored" /\ grid.tiles[24] = "Colored"

\* C7: whenever the classification has an Open tile, the tiles written Open
\* are exactly one whole 4-connected component of the classified-Open tiles
\* and every other tile is written Closed.
C7_OneWholeComponent ==
    (gen_pc = "done" /\ OpenIndices # {})
        => /\ FloorIndices \in OpenComponents
           /\ \A i \in DOMAIN grid.tiles \ FloorIndices : grid.tiles[i] = "Water"

\* C8: with exactly two open regions of different sizes, exactly the tiles of
\* the larger one are written Open, whichever is scanned first.
C8_LargerOfTwo ==
    (gen_pc = "done" /\ Cardinality(OpenComponents) = 2
       /\ Cardinality(LargestComponents) = 1)
        => /\ FloorIndices \in LargestComponents
           /\ \A i \in DOMAIN grid.tiles \ FloorIndices : grid.tiles[i] = "Water"

\* C8 witness: the generator is done on two regions of which the smaller
\* comes first in the row-major scan.
C8_Witness ==
    /\ gen_pc = "done" /\ Cardinality(OpenComponents) = 2
    /\ Cardinality(LargestComponents) = 1
    /\ \E c \in LargestComponents : SetMin(OpenIndices) \notin c
    /\ FloorIndices \in LargestComponents

\* C9: the group tracked as biggest is always the first-discovered of the
\* largest groups found so far, and in the end the component that the row-major
\* scan meets first among the largest ones is Open.
C9_FirstOfLargestWins ==
    /\ groups # << >> =>
         \E k0 \in DOMAIN groups :
            /\ biggest_group = << groups[k0].id, groups[k0].size >>
            /\ \A k \in DOMAIN groups :
                  IF k < k0 THEN groups[k].size < groups[k0].size
                  ELSE groups[k].size <= groups[k0].size
    /\ (gen_pc = "done" /\ OpenIndices # {}) =>
         grid.tiles[SetMin(UNION LargestComponents)] = "Floor"

\* C9 witness: the generator is done on a classification whose largest size
\* is shared by several components.
C9_Witness ==
    /\ gen_pc = "done" /\ OpenIndices # {}
    /\ Cardinality(LargestComponents) >= 2
    /\ LargestSize >= 2

\* C10: with no Open tile the generator does no flood fill, does not panic,
\* runs on to its end and writes every tile Closed.
C10_NothingOpen ==
    (OpenIndices = {} /\ gen_pc # "idle")
        => /\ gen_pc # "panic"
           /\ groups = << >>
           /\ gen_pc = "done" => \A i \in DOMAIN grid.tiles : grid.tiles[i] = "Water"
           /\ gen_pc # "done" => ENABLED NextGen

\* C10 witness: the generator is done on an all-Closed classification.
C10_Witness ==
    /\ gen_pc = "done" /\ OpenIndices = {}
    /\ grid.width * grid.height >= 4
    /\ \A i \in DOMAIN grid.tiles : grid.tiles[i] = "Water"

(***************************************************************************)
(* Borders: the edges of the tile lattice, named without Border::at.       *)
(***************************************************************************)
\* The unit edge along the south side of tile (x, y) and the one along its
\* west side, as Border values (border.rs 10-13).
HorizontalEdge(x, y) == [pos |-> << x, y >>, is_vertical |-> FALSE]
VerticalEdge(x, y) == [pos |-> << x, y >>, is_vertical |-> TRUE]

\* How often the receiver was handed the edge e.
Reported(e) == Cardinality({k \in DOMAIN borders : borders[k] = e})

InsideAt(x, y) == grid.tiles[TileIndex(grid, x, y)] \in test_inside

\* The two corner points of the side of a tile that a cardinal names.
EdgePoints(tile, cardinal) ==
    LET x == tile[1]
        y == tile[2]
    IN  CASE cardinal = "North" -> {<< x, y + 1 >>, << x + 1, y + 1 >>}
          [] cardinal = "East" -> {<< x + 1, y >>, << x + 1, y + 1 >>}
          [] cardinal = "South" -> {<< x, y >>, << x + 1, y >>}
          [] cardinal = "West" -> {<< x, y >>, << x, y + 1 >>}

\* C11: when collect_borders has returned, the edge between two horizontally
\* or vertically adjacent tiles of the grid was reported once if exactly one
\* of the two is inside (open), and not at all otherwise.
C11_EdgeIffOneOpen ==
    border_pc = "done" =>
        /\ \A x \in 0 .. grid.width - 1, y \in 0 .. grid.height - 2 :
              Reported(HorizontalEdge(x, y + 1)) =
                 IF InsideAt(x, y) # InsideAt(x, y + 1) THEN 1 ELSE 0
        /\ \A x \in 0 .. grid.width - 2, y \in 0 .. grid.height - 1 :
              Reported(VerticalEdge(x + 1, y)) =
                 IF InsideAt(x, y) # InsideAt(x + 1, y) THEN 1 ELSE 0

\* C11 witness: a finished run on a grid where a tile that is not inside has
\* an inside tile to its north and another has one to its east, and where two
\* adjacent tiles are both inside.
C11_Witness ==
    /\ border_pc = "done"
    /\ \E x \in 0 .. grid.width - 1, y \in 0 .. grid.height - 2 :
          ~InsideAt(x, y) /\ InsideAt(x, y + 1)
          /\ Reported(HorizontalEdge(x, y + 1)) = 1
    /\ \E x \in 0 .. grid.width - 2, y \in 0 .. grid.height - 1 :
          ~InsideAt(x, y) /\ InsideAt(x + 1, y)
          /\ Reported(VerticalEdge(x + 1, y)) = 1
    /\ \E x \in 0 .. grid.width - 2, y \in 0 .. grid.height - 1 :
          InsideAt(x, y) /\ InsideAt(x + 1, y)

\* C12: on a grid whose tiles are all inside (open), collect_borders hands
\* over exactly 2 * (width + height) borders, each on the outer rectangle.
C12_AllOpenPerimeter ==
    (border_pc = "done" /\ \A i \in DOMAIN grid.tiles : grid.tiles[i] \in test_inside)
        => /\ Len(borders) = 2 * (grid.width + grid.height)
           /\ \A k \in DOMAIN borders :
                 IF borders[k].is_vertical
                 THEN borders[k].pos[1] \in {0, grid.width}
                 ELSE borders[k].pos[2] \in {0, grid.height}

\* C12 witness: a finished run on an all-open grid with inner edges.
C12_Witness ==
    /\ border_pc = "done"
    /\ \A i \in DOMAIN grid.tiles : grid.tiles[i] \in test_inside
    /\ grid.width >= 2 /\ grid.height >= 2
    /\ Len(borders) = 2 * (grid.width + grid.height)

\* C13: when collect_borders has returned, every unit edge of the outer
\* rectangle (x = 0, y = 0, x = width, y = height) was reported once if its
\* tile is inside (open) and never if it is not.
C13_OuterEdgesOnce ==
    border_pc = "done" =>
        /\ \A y \in 0 .. grid.height - 1 :
              /\ Reported(VerticalEdge(0, y)) = IF InsideAt(0, y) THEN 1 ELSE 0
              /\ Reported(VerticalEdge(grid.width, y)) =
                    IF InsideAt(grid.width - 1, y) THEN 1 ELSE 0
        /\ \A x \in 0 .. grid.width - 1 :
              /\ Reported(HorizontalEdge(x, 0)) = IF InsideAt(x, 0) THEN 1 ELSE 0
              /\ Reported(HorizontalEdge(x, grid.height)) =
                    IF InsideAt(x, grid.height - 1) THEN 1 ELSE 0

\* C13 witness: a finished run where the corner tile (0, 0) is not inside and
\* the opposite corner tile is, with its east and north edges reported.
C13_Witness ==
    /\ border_pc = "done"
    /\ grid.width >= 2 /\ grid.height >= 2
    /\ ~InsideAt(0, 0)
    /\ InsideAt(grid.width - 1, grid.height - 1)
    /\ Reported(VerticalEdge(grid.width, grid.height - 1)) = 1
    /\ Reported(HorizontalEdge(grid.width - 1, grid.height)) = 1

\* C14: two (tile, cardinal) pairs get the same Border from Border::at exactly
\* when they name the same physical edge (the same two corner points); so
\* North of (x, y) equals South of (x, y + 1) and East of (x, y) equals West
\* of (x + 1, y).
C14_SameBorderIffSameEdge ==
    \A i, j \in DOMAIN at_calls :
        (at_calls[i].border = at_calls[j].border)
            <=> (EdgePoints(at_calls[i].tile, at_calls[i].cardinal)
                   = EdgePoints(at_calls[j].tile, at_calls[j].cardinal))

\* C14 witness: Border::at was called for North of a tile and for South of the
\* tile above it, and gave one value.
C14_Witness ==
    /\ Len(at_calls) = 2
    /\ at_calls[1].cardinal = "North" /\ at_calls[2].cardinal = "South"
    /\ at_calls[2].tile = << at_calls[1].tile[1], at_calls[1].tile[2] + 1 >>
    /\ at_calls[1].border = at_calls[2].border

(***************************************************************************)
(* The obstacle index                                                      *)
(***************************************************************************)
ValidIndices == 0 .. (Len(world.obstacles) - 1)

\* Whether the handle h was issued before the last remove_all.
Stale(h) == h.epoch < epoch

\* C15: while no call has panicked, the handles registered in the BVH
\* (inserted or pending) are exactly the indices 0 .. len-1 of the obstacle
\* store, and refit never panics on a handle without an obstacle.
C15_HandlesMatchStore ==
    /\ obs_pc = "ok" => RegisteredIn(world.qbvh) = ValidIndices
    /\ ~(obs_pc = "panic" /\ last_call.op = "refit")

\* C15 witness: a refit has returned with two obstacles stored after an
\* earlier remove_all, one of them awaiting no refit any more.
C15_Witness ==
    /\ obs_pc = "ok" /\ last_call.op = "refit" /\ epoch >= 1
    /\ Len(world.obstacles) = 2
    /\ DOMAIN world.qbvh.leaves = {0, 1}

\* C16: when remove_all has returned the obstacle store is empty and the BVH
\* holds no handle, pending or inserted; an add that follows returns handle 0.
C16_RemoveAllEmpties ==
    /\ last_call.op = "remove_all"
          => (world.obstacles = << >> /\ RegisteredIn(world.qbvh) = {})
    /\ (last_call.op = "add" /\ last_call.prev = "remove_all")
          => last_call.result = Some(0)

\* C16 witness: an add has returned handle 0 right after a remove_all that
\* followed earlier adds.
C16_Witness ==
    /\ last_call.op = "add" /\ last_call.prev = "remove_all"
    /\ adds >= 3
    /\ last_call.result = Some(0)

\* C17: a handle issued before the last remove_all never resolves to an
\* obstacle through Index or IndexMut, and IndexMut never registers it in
\* the BVH.
C17_StaleHandleInvalid ==
    (last_call.op \in {"index", "index_mut"} /\ Stale(Unwrap(last_call.arg)))
        => /\ last_call.result = None
           /\ last_call.op = "index_mut"
                 => Unwrap(last_call.arg).index \notin RegisteredIn(world.qbvh)

\* The least distance within max_length at which the ray meets any stored
\* obstacle, or None.
NearestHit(origin, dir, max_length) ==
    LET tois == {d \in 0 .. max_length :
                    \E k \in DOMAIN world.obstacles :
                       RayToi(origin, dir, BorderWallAabb(world.obstacles[k].border))
                          = Some(d)}
    IN  IF tois = {} THEN None
        ELSE Some(CHOOSE d \in tois : \A e \in tois : d <= e)

\* C18: once every added obstacle has been through refit and rebalance, a
\* ray query returns the least distance at which the ray meets a stored
\* obstacle when that is within max_distance, and none otherwise.
C18_RayNearestHit ==
    (last_call.op = "ray" /\ world.qbvh.pending = {} /\ world.qbvh.balanced)
        => LET ray == Unwrap(last_call.arg)
           IN  last_call.result = NearestHit(ray[1], ray[2], ray[3])

\* C18 witness: a query after refit and rebalance whose ray meets two stored
\* obstacles within range and returns the nearer distance.
C18_Witness ==
    /\ last_call.op = "ray" /\ world.qbvh.pending = {} /\ world.qbvh.balanced
    /\ LET ray == Unwrap(last_call.arg)
       IN  /\ Cardinality({k \in DOMAIN world.obstacles :
                  LET t == RayToi(ray[1], ray[2], BorderWallAabb(world.obstacles[k].border))
                  IN  IsSome(t) /\ Unwrap(t) <= ray[3]}) >= 2
           /\ last_call.result = Some(4)

(***************************************************************************)
(* The Grid's accessors and its shape                                      *)
(***************************************************************************)
OffGrid(a) == a[1] >= grid.width \/ a[2] >= grid.height

\* C19: for an address with x >= width or y >= height, tile_at and get_tile
\* return None and set_tile changes no tile of the grid.
C19_OffGridNoAccess ==
    (grid_call.op # "none" /\ grid_pc = "ok" /\ OffGrid(grid_call.arg))
        => /\ grid_call.op \in {"tile_at", "get_tile"} => grid_call.result = None
           /\ grid_call.op = "set_tile" => grid_call.result = Some({})

\* C19 witness: set_tile has returned for an address one past the width in a
\* row below the last, whose row-major index names a tile of the next row.
C19_Witness ==
    /\ grid_call.op = "set_tile"
    /\ grid_call.arg[1] = grid.width /\ grid_call.arg[2] + 1 < grid.height
    /\ grid_call.result = Some({})
    /\ \E i \in DOMAIN grid.tiles : grid.tiles[i] # "Floor"

\* C20: the tile array has width * height tiles, and width and height are
\* those given to Grid::new, whatever calls have been made.
C20_ShapeKept ==
    /\ DOMAIN grid.tiles = 0 .. (grid.width * grid.height - 1)
    /\ << grid.width, grid.height >> = created

\* C20 witness: a flood_fill with Colored has returned on a 2 x 2 grid that
\* also holds a Water tile, written before by set_tile, an indexed write or
\* the generator.
C20_Witness ==
    /\ pc = "done" /\ color = "Colored"
    /\ grid.width >= 2 /\ grid.height >= 2
    /\ \E i \in DOMAIN grid.tiles : grid.tiles[i] = "Water"
    /\ \E i \in DOMAIN grid.tiles : grid.tiles[i] = "Colored"

(***************************************************************************)
(* Neighbours                                                              *)
(***************************************************************************)
\* The addresses at a king's move (EightWay) or a rook's step (FourWay)
\* from c that lie in the grid.
NeighboursInGrid(c, nt) ==
    {a \in (0 .. grid.width - 1) \X (0 .. grid.height - 1) :
        LET ax == IF a[1] > c[1] THEN a[1] - c[1] ELSE c[1] - a[1]
            ay == IF a[2] > c[2] THEN a[2] - c[2] ELSE c[2] - a[2]
        IN  /\ a # c
            /\ ax <= 1 /\ ay <= 1
            /\ nt = "FourWay" => ax + ay = 1}

\* C21: neighbors_of for a centre in the grid yields exactly the in-grid
\* addresses among the 4 or 8 offset addresses, each once, never the centre
\* and never an address reached by wrapping round an edge.
C21_NeighboursInGridOnce ==
    grid_call.op = "neighbors_of" =>
        LET c == << grid_call.arg[1], grid_call.arg[2] >>
            yielded == Unwrap(grid_call.result)
        IN  /\ {yielded[k] : k \in DOMAIN yielded} = NeighboursInGrid(c, grid_call.arg[3])
            /\ \A j, k \in DOMAIN yielded : yielded[j] = yielded[k] => j = k

\* C21 witness: an EightWay call for the corner (0, 0) of a grid at least
\* 3 x 3 has yielded its three neighbours.
C21_Witness ==
    /\ grid_call.op = "neighbors_of"
    /\ grid_call.arg = << 0, 0, "EightWay" >>
    /\ grid.width >= 3 /\ grid.height >= 3
    /\ Len(Unwrap(grid_call.result)) = 3


(***************************************************************************)
(* The generator's groups                                                  *)
(***************************************************************************)
\* The component of the classified-Open tiles that holds index a.
ComponentOf(a) == Grow(grid.width, {a}, OpenIndices)

\* C24: the flood fill the generator runs for a newly found group calls
\* set_tile once for each tile of that group's component and for no other
\* tile: the proxy's group_size equals the component's number of tiles, the
\* scratch grid changes on exactly the component's tiles, and on an all-open
\* W x H grid the count is W*H.
C24_SetTileOncePerTile ==
    [][Len(groups') = Len(groups) + 1 =>
          LET g == groups'[Len(groups')]
              comp == ComponentOf(g.at)
          IN  /\ g.size = Cardinality(comp)
              /\ \A i \in DOMAIN field :
                    (gen_grid'.tiles[i] # gen_grid.tiles[i]) <=> (i \in comp)
              /\ \A i \in comp : gen_grid'.tiles[i] = ReachableGroup(g.id)
              /\ OpenIndices = DOMAIN field => g.size = grid.width * grid.height]_vars

\* C24 witness: a group of a bent component (it turns a corner, so the fill
\* reverses direction) has been counted next to another group, and an
\* all-open grid of at least 2 x 2 tiles has been counted whole.
C24_Witness ==
    /\ gen_pc = "done"
    /\ grid.width >= 2 /\ grid.height >= 2
    /\ \/ /\ Len(groups) >= 2
          /\ \E k \in DOMAIN groups :
                /\ groups[k].size >= 5
                /\ groups[k].size = Cardinality(ComponentOf(groups[k].at))
       \/ /\ OpenIndices = DOMAIN field
          /\ Len(groups) = 1
          /\ groups[1].size = grid.width * grid.height

\* C25: within one pass every newly discovered component receives a GroupId
\* strictly greater than that of every component discovered before it, so no
\* two components share a GroupId.
C25_GroupIdsIncrease ==
    \A k \in 1 .. (Len(groups) - 1) : groups[k].id < groups[k + 1].id

(***************************************************************************)
(* The seed stack of flood_fill                                            *)
(***************************************************************************)
\* The seed the next iteration pops, and the seeds an iteration has pushed.
TopSeed == seed_stack[Len(seed_stack)]
PushedSeeds == SubSeq(seed_stack', Len(seed_stack), Len(seed_stack'))

\* C26 as stated: every seed on the stack targets a row of the grid,
\* 0 <= y < height.
C26_SeedRowsExist ==
    \A k \in DOMAIN seed_stack :
        seed_stack[k].y >= 0 /\ seed_stack[k].y < grid.height

\* C26 amended: every seed pushed targets a row y with 0 <= y <= height (no
\* seed is pushed below row 0, but an upward seed is pushed without regard
\* for the grid's height); a seed for row = height, the first row past the
\* grid, finds no child span: popping it fills nothing and pushes nothing.
C26_SeedRowsUpToHeight ==
    [][/\ \A k \in DOMAIN seed_stack' :
             seed_stack'[k].y >= 0 /\ seed_stack'[k].y <= grid.height
       /\ (pc = "loop" /\ seed_stack # << >> /\ TopSeed.y = grid.height)
             => /\ grid' = grid
                /\ seed_stack' = SubSeq(seed_stack, 1, Len(seed_stack) - 1)]_vars

\* C26 witness: the loop is running with a seed for the row just past the
\* grid on its stack, on a grid of at least two rows.
C26_Witness ==
    /\ pc = "loop" /\ grid.height >= 2
    /\ \E k \in DOMAIN seed_stack :
          seed_stack[k].y = grid.height /\ seed_stack[k].dir = "Up"

\* The child spans the scan of row y finds for a parent span, left to right.
RECURSIVE ChildSpans(_, _, _, _)
ChildSpans(s, parent, y, current_x) ==
    IF ~IsSome(current_x) THEN << >>
    ELSE LET r == NextChildRangeRight(s, y, pred, Unwrap(start_color),
                                      parent.max, Unwrap(current_x))
         IN  IF ~IsSome(r) THEN << >>
             ELSE << Unwrap(r) >>
                  \o ChildSpans(s, parent, y, ForwardChecked(Unwrap(r).max, 2))

\* The back-seed rule of one iteration, for children that reach slack columns
\* beyond parent.min - 2 or parent.max + 2: each such child has its
\* opposite-direction seed (target row the parent's row, span non-empty,
\* inside the child, clear of [parent.min - 1, parent.max + 1]), and every
\* opposite-direction seed pushed belongs to such a child.
OverhangRule(slack) ==
    (pc = "loop" /\ seed_stack # << >>) =>
      LET seed == TopSeed
          parent == seed.span
          kids == ChildSpans(GridStore(grid), parent, seed.y, Some(parent.min))
          pushed == PushedSeeds
          opp == {k \in DOMAIN pushed : pushed[k].dir # seed.dir}
          row == IF seed.dir = "Up" THEN seed.y - 1 ELSE seed.y + 1
          FarLeft(c) == c.min <= parent.min - 2 - slack
          FarRight(c) == c.max >= parent.max + 2 + slack
          Scoped(sd, c) ==
              /\ sd.y = row
              /\ sd.span.min <= sd.span.max
              /\ c.min <= sd.span.min /\ sd.span.max <= c.max
          LeftOf(sd, c) == Scoped(sd, c) /\ sd.span.max < parent.min - 1
          RightOf(sd, c) == Scoped(sd, c) /\ sd.span.min > parent.max + 1
      IN  /\ \A j \in DOMAIN kids :
                /\ FarLeft(kids[j]) => \E k \in opp : LeftOf(pushed[k], kids[j])
                /\ FarRight(kids[j]) => \E k \in opp : RightOf(pushed[k], kids[j])
          /\ \A k \in opp : \E j \in DOMAIN kids :
                \/ FarLeft(kids[j]) /\ LeftOf(pushed[k], kids[j])
                \/ FarRight(kids[j]) /\ RightOf(pushed[k], kids[j])

\* C27 as stated: a back-seed is pushed for the children that extend past
\* parent.min - 2 or parent.max + 2 (child.min < parent.min - 2, child.max >
\* parent.max + 2) and for no other child.
C27_OverhangPast == [][OverhangRule(1)]_vars

\* C27 amended: a back-seed is pushed for the children that reach column
\* parent.min - 2 or further left (child.min <= parent.min - 2), or column
\* parent.max + 2 or further right; its target row is the parent's row, its
\* span is non-empty, inside the child and clear of [parent.min - 1,
\* parent.max + 1]; no back-seed is pushed for any other child.
C27_OverhangReach == [][OverhangRule(0)]_vars

\* C27 witness: a forward seed lies on the stack directly below the back-seed
\* of the same child, whose span is the child's left end only.
C27_Witness ==
    /\ pc = "loop"
    /\ \E k \in 1 .. (Len(seed_stack) - 1) :
          LET fwd == seed_stack[k]
              back == seed_stack[k + 1]
          IN  /\ fwd.dir = "Up" /\ back.dir = "Down"
              /\ fwd.y = back.y + 2
              /\ back.span.min = fwd.span.min
              /\ back.span.max < fwd.span.max

(***************************************************************************)
(* The index arithmetic                                                    *)
(***************************************************************************)
\* C28: for every grid Grid::new accepts and every address inside it, the
\* index y*width + x computed in u32 does not overflow (no panic), is the
\* row-major index below width*height, and differs for different addresses:
\* after a write at one address, a read at any address returns the written
\* value only at that address.
C28_IndexInBoundsDistinct ==
    /\ grid_pc # "panic"
    /\ grid_call.op = "tile_at_mut" =>
          /\ IsSome(grid_call.result)
          /\ Unwrap(grid_call.result) = grid_call.arg[2] * grid.width + grid_call.arg[1]
          /\ Unwrap(grid_call.result) < grid.width * grid.height
    /\ grid_call.op = "tile_at" =>
          LET a == grid_call.arg
          IN  grid_call.result =
                 Some(IF << a[1], a[2] >> = << a[3], a[4] >> THEN "Colored" ELSE "Floor")

(***************************************************************************)
(* Paths                                                                   *)
(***************************************************************************)
FloorTile(x, y) ==
    /\ x >= 0 /\ x < grid.width /\ y >= 0 /\ y < grid.height
    /\ grid.tiles[y * grid.width + x] = "Floor"

\* C29: every path find_path returns begins at start and ends at goal, each
\* step goes to one of the 8 neighbours of the previous tile, every tile
\* after the first is a floor tile of the grid, and a diagonal step has floor
\* tiles on both cardinal neighbours it passes between.
C29_PathsKeepToFloor ==
    (grid_call.op = "find_path" /\ IsSome(grid_call.result)) =>
       LET q == Unwrap(grid_call.result)
           a == grid_call.arg
       IN  /\ Len(q) >= 1
           /\ q[1] = << a[1], a[2] >>
           /\ q[Len(q)] = << a[3], a[4] >>
           /\ \A i \in 1 .. (Len(q) - 1) :
                 LET dx == q[i + 1][1] - q[i][1]
                     dy == q[i + 1][2] - q[i][2]
                 IN  /\ dx \in {-1, 0, 1} /\ dy \in {-1, 0, 1}
                     /\ << dx, dy >> # << 0, 0 >>
                     /\ FloorTile(q[i + 1][1], q[i + 1][2])
                     /\ (dx # 0 /\ dy # 0) =>
                           /\ FloorTile(q[i][1] + dx, q[i][2])
                           /\ FloorTile(q[i][1], q[i][2] + dy)

\* C29 witness: a returned path of at least three tiles takes a diagonal
\* step on a grid that also holds a Water tile.
C29_Witness ==
    /\ grid_call.op = "find_path" /\ IsSome(grid_call.result)
    /\ \E i \in DOMAIN grid.tiles : grid.tiles[i] = "Water"
    /\ LET q == Unwrap(grid_call.result)
       IN  /\ Len(q) >= 3
           /\ \E i \in 1 .. (Len(q) - 1) :
                 q[i + 1][1] # q[i][1] /\ q[i + 1][2] # q[i][2]

(***************************************************************************)
(* The pipeline                                                            *)
(***************************************************************************)
\* C22: two runs of the pipeline on the same classification end with the
\* same output grid and the same borders, whatever the grid held before
\* each run.
C22_SameOutputs ==
    (pipe_run = 1 /\ gen_pc = "done" /\ border_pc = "done") =>
        /\ grid.tiles = Unwrap(pipe_first).tiles
        /\ {borders[k] : k \in DOMAIN borders}
             = {Unwrap(pipe_first).borders[k] : k \in DOMAIN Unwrap(pipe_first).borders}
        /\ borders = Unwrap(pipe_first).borders

\* C22 witness: the second run has ended on a grid of four tiles that it
\* entered with other content than the first run, with an Open tile, a
\* Closed tile and at least three borders in its output.
C22_Witness ==
    /\ pipe_run = 1 /\ gen_pc = "done" /\ border_pc = "done"
    /\ grid.width * grid.height = 4
    /\ "Floor" \in {grid.tiles[i] : i \in DOMAIN grid.tiles}
    /\ "Water" \in {grid.tiles[i] : i \in DOMAIN grid.tiles}
    /\ Len(borders) >= 3
    /\ Len(groups) >= 2

(***************************************************************************)
(* Regeneration and its readers                                            *)
(***************************************************************************)
\* The borders of the grid as it is, and the borders the obstacle index holds.
GridBorders ==
    UNION {{CollectBordersAt(grid, {"Floor"}, a)[k] :
               k \in DOMAIN CollectBordersAt(grid, {"Floor"}, a)} :
           a \in {Addresses(grid.width, grid.height)[n] :
                     n \in DOMAIN Addresses(grid.width, grid.height)}}
IndexedBorders == {world.obstacles[k].border : k \in DOMAIN world.obstacles}

\* C23: no reader runs while the grid is only partly regenerated, and no ray
\* query of solve_laser_impacts is answered from an obstacle index built
\* from another grid than the current one.
C23_RegeneratedAsOneUnit ==
    /\ running \in {"rebuild_obstacles", "solve_laser_impacts"} => gen_pc = "idle"
    /\ (running = "solve_laser_impacts" /\ last_call.op = "ray")
          => IndexedBorders = GridBorders

====
